---------------------------- MODULE Spec2Model ----------------------------
(***************************************************************************)
(* A model of the signal aggregation, position sizing and backtesting core *)
(* of trading_system:                                                      *)
(*   strategies/aggregation.py   SignalAggregator                          *)
(*   portfolio/position_sizer.py PositionSizer                             *)
(*   backtesting/engine.py       BacktestingEngine                         *)
(*                                                                         *)
(* Numbers.  The code computes in binary floating point; the model uses    *)
(* exact arithmetic over integers.  Prices and share counts are integers.  *)
(* Money handled by the engine (cash, equity, trade value, fees, pnl) is   *)
(* kept in units of 1/TcDen, the transaction cost being a fraction         *)
(* transaction_cost/TcDen, so that cost * (1 + transaction_cost) stays an  *)
(* integer.  Confidences, weights and sector limits are hundredths         *)
(* (PctDen).  Ratios (total_return, max_drawdown) are kept as a numerator  *)
(* and a denominator.                                                      *)
(***************************************************************************)
EXTENDS Integers, Sequences, FiniteSets, TLC

\* ------------------------------------------------------------------------
\* Bounds of the model
\* ------------------------------------------------------------------------
\* number of rows of the generic price frames
NumDates == 2
\* longest signal list a strategy returns in the generic engine runs
MaxSignals == 2
\* longest signal list handed to size_positions
MaxSizerSignals == 3
\* longest signal list handed to aggregate
MaxAggSignals == 3
\* most rows of a strategy's frame that the model follows
MaxScan == 2
\* the longest equity curve handed to calculate_drawdowns on its own
MaxCurve == 4

\* ------------------------------------------------------------------------
\* Units
\* ------------------------------------------------------------------------
\* denominator of transaction_cost and of every engine money amount
TcDen == 1000
\* denominator of confidences, weights, sector limits and individual_stop
PctDen == 100

Symbols == {"A", "B"}
\* the symbol argument of run(): the fallback of an allocation without one
FallbackSymbol == "A"

Min(a, b) == IF a <= b THEN a ELSE b
Max(a, b) == IF a >= b THEN a ELSE b

\* dict.get / "key in dict" on a mapping modelled as a function
Has(d, k) == k \in DOMAIN d

\* all sequences over S of length at most n
SeqsUpTo(S, n) == UNION {[1..k -> S] : k \in 0..n}

\* ------------------------------------------------------------------------
\* Stable sorts (Python's sorted / list.sort / sort_index are stable)
\* ------------------------------------------------------------------------
\* s is a sequence of <<key, item>>; x goes after every element whose key is
\* not greater than its own, so equal keys keep their order
RECURSIVE InsertByKey(_, _)
InsertByKey(x, s) ==
    IF s = <<>> THEN <<x>>
    ELSE IF x[1] < Head(s)[1] THEN <<x>> \o s
    ELSE <<Head(s)>> \o InsertByKey(x, Tail(s))

RECURSIVE SortPairs(_)
SortPairs(s) ==
    IF s = <<>> THEN <<>>
    ELSE InsertByKey(s[Len(s)], SortPairs(SubSeq(s, 1, Len(s) - 1)))

\* the items of s in ascending order of their keys (keys[i] is the key of
\* s[i]), stable
StableSortBy(s, keys) ==
    LET sorted == SortPairs([i \in 1..Len(s) |-> <<keys[i], s[i]>>])
    IN  [i \in 1..Len(s) |-> sorted[i][2]]

\* ------------------------------------------------------------------------
\* StrategySignal (strategies.base): symbol, date, strategy, signal_type,
\* confidence (hundredths), metadata (a mapping from keys to numbers)
\* ------------------------------------------------------------------------
NoMeta == <<>>

Signal(sym, d, strat, ty, conf, meta) ==
    [symbol |-> sym, date |-> d, strategy |-> strat, signal_type |-> ty,
     confidence |-> conf, metadata |-> meta]

\* the first key of keys the metadata holds, as <<value>>; <<>> when none
RECURSIVE FirstKey(_, _)
FirstKey(metadata, keys) ==
    IF keys = <<>> THEN <<>>
    ELSE IF Has(metadata, Head(keys)) THEN <<metadata[Head(keys)]>>
    ELSE FirstKey(metadata, Tail(keys))

\* ------------------------------------------------------------------------
\* PositionSizer (portfolio/position_sizer.py)
\* ------------------------------------------------------------------------
\* str.lower() on the sector names the model uses
Lower(s) == CASE s = "TECH" -> "tech"
              [] s = "Tech" -> "tech"
              [] OTHER -> s

\* _get_sector_limit: the sector's own limit, else "other"'s, else 1.0
GetSectorLimit(limits, sector) ==
    IF Has(limits, sector) THEN limits[sector]
    ELSE IF Has(limits, "other") THEN limits["other"]
    ELSE PctDen

\* _extract_price: <<price>> of the first key present, <<>> for None
ExtractPrice(signal) ==
    FirstKey(signal.metadata, <<"entry_price", "breakout_price", "price", "close">>)

\* sorted(BUY signals, key=confidence, reverse=True): stable, so signals of
\* equal confidence keep their input order.  Each signal carries src, its
\* index in the input, which the code does not have.
BuyOnly(signals) ==
    SelectSeq([i \in 1..Len(signals) |-> [sig |-> signals[i], src |-> i]],
              LAMBDA e : e.sig.signal_type = "BUY")

NegConfidence(e) == 0 - e.sig.confidence

Confidence(e) == e.sig.confidence

\* an ascending sort read backwards: signals of equal confidence change places
SortedSignals_Reversed(signals) ==
    LET buys == BuyOnly(signals)
        asc  == StableSortBy(buys, [i \in 1..Len(buys) |-> Confidence(buys[i])])
    IN  [i \in 1..Len(asc) |-> asc[Len(asc) + 1 - i]]

SortedSignals(signals) ==
    LET buys == BuyOnly(signals)
    IN  StableSortBy(buys, [i \in 1..Len(buys) |-> NegConfidence(buys[i])])

\* sector_map.get(signal.symbol, "other").lower()
SectorOf(sector_map, sym) ==
    Lower(IF Has(sector_map, sym) THEN sector_map[sym] ELSE "other")

\* dict.get(key, 0.0) on sector_allocated
SectorAllocated(sector_allocated, sector) ==
    IF Has(sector_allocated, sector) THEN sector_allocated[sector] ELSE 0

\* the sector's whole capacity, whatever is allocated in it already
RemainingSectorCapacity_Whole(equity, limit, current) == equity * limit

\* account_equity * sector_limit - current_sector_allocation, in 1/PctDen
RemainingSectorCapacity(equity, limit, current) ==
    equity * limit - current * PctDen

\* the budget's share count rounded up instead of down
SharesFor_RoundedUp(equity, max_positions, remaining, price) ==
    IF equity * PctDen <= remaining * max_positions
    THEN (equity + max_positions * price - 1) \div (max_positions * price)
    ELSE (remaining + PctDen * price - 1) \div (PctDen * price)

\* floor(min(base_allocation, remaining_sector_capacity) / price), where
\* base_allocation = equity / max_positions and remaining is in 1/PctDen
SharesFor(equity, max_positions, remaining, price) ==
    IF equity * PctDen <= remaining * max_positions
    THEN equity \div (max_positions * price)
    ELSE remaining \div (PctDen * price)

\* one position too many: total_positions <= max_positions
HasFreeSlot_OffByOne(total_positions, max_positions) == total_positions <= max_positions

\* whether the loop goes on to the next signal: total_positions < max_positions
HasFreeSlot(total_positions, max_positions) == total_positions < max_positions

\* a skipped signal takes a position slot all the same
Skipped_TakesSlot(st) == [st EXCEPT !.total_positions = @ + 1]

\* continue: a skipped signal leaves the loop's state as it was
Skipped(st) == st

\* the loop of size_positions over sorted_signals from index i on;
\* st = [allocations, sector_allocated, total_positions]
RECURSIVE SizeLoop(_, _, _, _, _, _)
SizeLoop(sorted, i, st, equity, sector_map, risk) ==
    LET max_positions == Max(1, risk.max_positions) IN
    IF i > Len(sorted) \/ ~HasFreeSlot(st.total_positions, max_positions) THEN st
    ELSE
      LET signal    == sorted[i].sig
          p         == ExtractPrice(signal)
          sector    == SectorOf(sector_map, signal.symbol)
          limit     == GetSectorLimit(risk.sector_limits, sector)
          current   == SectorAllocated(st.sector_allocated, sector)
          remaining == RemainingSectorCapacity(equity, limit, current)
          price     == p[1]
          shares    == SharesFor(equity, max_positions, remaining, price)
          value     == shares * price
          alloc     == [symbol |-> signal.symbol, shares |-> shares,
                        allocation |-> value, confidence |-> signal.confidence,
                        sector |-> sector, entry_price |-> price,
                        stop_price |-> price * (PctDen - risk.individual_stop),
                        src |-> sorted[i].src]
          skip      == SizeLoop(sorted, i + 1, Skipped(st), equity, sector_map, risk)
      IN  IF p = <<>> \/ price <= 0 THEN skip
          ELSE IF remaining <= 0 THEN skip
          ELSE IF shares <= 0 THEN skip
          ELSE SizeLoop(sorted, i + 1,
                        [allocations      |-> Append(st.allocations, alloc),
                         sector_allocated |->
                             [s \in DOMAIN st.sector_allocated \cup {sector} |->
                                 IF s = sector THEN current + value
                                 ELSE st.sector_allocated[s]],
                         total_positions  |-> st.total_positions + 1],
                        equity, sector_map, risk)

\* sizing on the magnitude of the equity, whatever its sign
SizePositions_Magnitude(signals, account_equity, sector_map, risk) ==
    IF account_equity = 0 THEN <<>>
    ELSE SizeLoop(SortedSignals(signals), 1,
                  [allocations      |-> <<>>,
                   sector_allocated |-> [s \in DOMAIN risk.sector_limits |-> 0],
                   total_positions  |-> 0],
                  Max(account_equity, 0 - account_equity), sector_map, risk).allocations

\* PositionSizer.size_positions
SizePositions(signals, account_equity, sector_map, risk) ==
    IF account_equity <= 0 THEN <<>>
    ELSE SizeLoop(SortedSignals(signals), 1,
                  [allocations      |-> <<>>,
                   sector_allocated |-> [s \in DOMAIN risk.sector_limits |-> 0],
                   total_positions  |-> 0],
                  account_equity, sector_map, risk).allocations

\* ------------------------------------------------------------------------
\* SignalAggregator (strategies/aggregation.py)
\* ------------------------------------------------------------------------
\* AggregationParams.min_confidence's default, 0.5
DefaultMinConfidence == 50

\* the elements of s, each once, in the order of their first appearance:
\* the key order of the dict that aggregate fills
RECURSIVE FirstAppearance(_, _)
FirstAppearance(s, seen) ==
    IF s = <<>> THEN <<>>
    ELSE IF Head(s) \in seen THEN FirstAppearance(Tail(s), seen)
    ELSE <<Head(s)>> \o FirstAppearance(Tail(s), seen \cup {Head(s)})

\* self.params.weighting.get(signal.strategy, 1.0)
WeightOf(weighting, strategy) ==
    IF Has(weighting, strategy) THEN weighting[strategy] ELSE PctDen

\* the sums of the loop of _combine_signals over signal_list
RECURSIVE TotalWeight(_, _)
TotalWeight(signal_list, weighting) ==
    IF signal_list = <<>> THEN 0
    ELSE WeightOf(weighting, Head(signal_list).strategy)
         + TotalWeight(Tail(signal_list), weighting)

\* the sum of the confidences, each with weight 1.0
RECURSIVE WeightedConfidence_Unweighted(_, _)
WeightedConfidence_Unweighted(signal_list, weighting) ==
    IF signal_list = <<>> THEN 0
    ELSE PctDen * Head(signal_list).confidence
         + WeightedConfidence_Unweighted(Tail(signal_list), weighting)

RECURSIVE WeightedConfidence(_, _)
WeightedConfidence(signal_list, weighting) ==
    IF signal_list = <<>> THEN 0
    ELSE WeightOf(weighting, Head(signal_list).strategy) * Head(signal_list).confidence
         + WeightedConfidence(Tail(signal_list), weighting)

\* combined_metadata[key]: the values of key, one per signal carrying it
ValuesOf(signal_list, key) ==
    LET carrying == SelectSeq(signal_list, LAMBDA s : Has(s.metadata, key))
    IN  [i \in 1..Len(carrying) |-> carrying[i].metadata[key]]

RECURSIVE MaxDate(_)
MaxDate(signal_list) ==
    IF Len(signal_list) = 1 THEN signal_list[1].date
    ELSE Max(signal_list[1].date, MaxDate(Tail(signal_list)))

\* avg_confidence <= self.params.min_confidence
BelowMinConfidence_OrEqual(weighted, total, min_confidence) ==
    weighted <= min_confidence * total

\* avg_confidence < self.params.min_confidence, avg = weighted / total
BelowMinConfidence(weighted, total, min_confidence) ==
    weighted < min_confidence * total

\* _combine_signals: <<the aggregated signal>>, or <<>> for None; its
\* confidence is the ratio num / den of hundredths
CombineSignals(symbol, signal_type, signal_list, params) ==
    LET total_weight == TotalWeight(signal_list, params.weighting)
        weighted     == WeightedConfidence(signal_list, params.weighting)
        keys         == UNION {DOMAIN signal_list[i].metadata : i \in 1..Len(signal_list)}
        metadata     ==
            [k \in keys \cup {"strategies", "confidence_values"} |->
                CASE k = "strategies" ->
                         [i \in 1..Len(signal_list) |-> signal_list[i].strategy]
                  [] k = "confidence_values" ->
                         [i \in 1..Len(signal_list) |-> signal_list[i].confidence]
                  [] OTHER -> ValuesOf(signal_list, k)]
    IN  IF total_weight = 0 THEN <<>>
        ELSE IF BelowMinConfidence(weighted, total_weight, params.min_confidence)
        THEN <<>>
        ELSE << Signal(symbol, MaxDate(signal_list), "aggregated", signal_type,
                       [num |-> weighted, den |-> total_weight], metadata) >>

\* the signals of one symbol and type, in input order
Group(signals, symbol, signal_type) ==
    SelectSeq(signals, LAMBDA s : s.symbol = symbol /\ s.signal_type = signal_type)

\* the loop over type_map.items() for one symbol
RECURSIVE CombineTypes(_, _, _, _)
CombineTypes(signals, symbol, types, params) ==
    IF types = <<>> THEN <<>>
    ELSE CombineSignals(symbol, Head(types), Group(signals, symbol, Head(types)), params)
         \o CombineTypes(signals, symbol, Tail(types), params)

\* the loop over grouped.items()
RECURSIVE CombineSymbols(_, _, _)
CombineSymbols(signals, syms, params) ==
    IF syms = <<>> THEN <<>>
    ELSE LET mine  == SelectSeq(signals, LAMBDA s : s.symbol = Head(syms))
             types == FirstAppearance([i \in 1..Len(mine) |-> mine[i].signal_type], {})
         IN  CombineTypes(signals, Head(syms), types, params)
             \o CombineSymbols(signals, Tail(syms), params)

\* SignalAggregator.aggregate
Aggregate(signals, params) ==
    CombineSymbols(signals,
                   FirstAppearance([i \in 1..Len(signals) |-> signals[i].symbol], {}),
                   params)

\* ------------------------------------------------------------------------
\* Strategies (strategies/*.py): generate_signals
\*
\* A price series is [columns, length, rows]: the columns of the frame, the
\* number of its rows, and the rows whose values the strategy reads, each
\* with its date.  A value that pandas holds as NaN is <<>>, any other is
\* <<value>>.  Ratios in the parameters and in the columns are hundredths.
\* ------------------------------------------------------------------------
NaN == <<>>

\* pd.notna
NotNa(x) == x # NaN

\* required_columns(), in the order the code lists them
RequiredColumns(strategy) ==
    CASE strategy = "can_slim" ->
             <<"close", "volume", "earnings_growth", "relative_strength",
               "fifty_two_week_high", "average_volume", "volume_change">>
      [] strategy = "trend_following" -> <<"close", "high", "low">>
      [] strategy = "livermore_breakout" -> <<"close", "high", "low", "volume">>
      [] strategy = "dan_zanger_cup_handle" -> <<"close", "volume">>

\* DataFrame.empty: no rows, or no columns
IsEmpty(series) == series.length = 0 \/ series.columns = {}

\* [col for col in required if col not in df.columns]
MissingColumns(strategy, series) ==
    SelectSeq(RequiredColumns(strategy), LAMBDA col : col \notin series.columns)

\* how a call of generate_signals ends: a list returned, or a ValueError
\* whose message holds the list of the missing columns
ReturnsSignals(signals) ==
    [outcome |-> "returned", signals |-> signals, missing |-> <<>>]

RaisesMissing(missing) ==
    [outcome |-> "raised", signals |-> <<>>, missing |-> missing]

\* CanSlimParams, its defaults
CanSlimDefaults ==
    [earnings_growth_threshold   |-> 25,
     relative_strength_threshold |-> 80,
     near_high_threshold         |-> 15,
     volume_increase_threshold   |-> 20,
     min_score                   |-> 75,
     weights |-> [earnings |-> 25, relative_strength |-> 25,
                  price_near_high |-> 25, volume_increase |-> 25]]

\* CAN SLIM scores are kept as numerators over ScoreDen(row, params), a
\* denominator that holds the weights' and the relative strength's
\* hundredths, near_high_threshold and the row's fifty_two_week_high, so
\* that the division by the high in price_score is exact
ScoreUnit(row, params) ==
    params.near_high_threshold
    * (IF NotNa(row.fifty_two_week_high) /\ row.fifty_two_week_high[1] > 0
       THEN row.fifty_two_week_high[1] ELSE 1)

ScoreDen(row, params) == PctDen * PctDen * ScoreUnit(row, params)

\* lines 86-89
EarningsScore(row, params) ==
    IF NotNa(row.earnings_growth)
       /\ row.earnings_growth[1] >= params.earnings_growth_threshold
    THEN params.weights.earnings * PctDen * ScoreUnit(row, params)
    ELSE 0

\* lines 91-94: weights["relative_strength"] * min(1.0, rs)
RelativeStrengthScore(row, params) ==
    IF NotNa(row.relative_strength)
    THEN params.weights.relative_strength * Min(PctDen, row.relative_strength[1])
         * ScoreUnit(row, params)
    ELSE 0

\* lines 96-102: distance = (high - close) / high, and the score is
\* weights["price_near_high"] * (1 - distance / near_high_threshold) when
\* distance <= near_high_threshold
PriceNearHighScore(row, params) ==
    IF NotNa(row.fifty_two_week_high) /\ row.fifty_two_week_high[1] > 0
       /\ NotNa(row.close)
    THEN LET high  == row.fifty_two_week_high[1]
             close == row.close[1]
         IN  IF PctDen * (high - close) <= params.near_high_threshold * high
             THEN params.weights.price_near_high * PctDen
                  * (params.near_high_threshold * high - PctDen * (high - close))
             ELSE 0
    ELSE 0

\* lines 104-107: weights["volume_increase"]
\*                * min(1.0, volume_change / volume_increase_threshold)
\* when volume_change >= volume_increase_threshold
VolumeIncreaseScore(row, params) ==
    IF NotNa(row.volume_change)
       /\ row.volume_change[1] >= params.volume_increase_threshold
    THEN (params.weights.volume_increase
          * Min(params.volume_increase_threshold, row.volume_change[1])
          * PctDen * ScoreUnit(row, params))
         \div params.volume_increase_threshold
    ELSE 0

\* _calculate_components
CalculateComponents(row, params) ==
    [earnings_score          |-> EarningsScore(row, params),
     relative_strength_score |-> RelativeStrengthScore(row, params),
     price_near_high_score   |-> PriceNearHighScore(row, params),
     volume_increase_score   |-> VolumeIncreaseScore(row, params)]

\* sum(score_components.values())
TotalScore(components) ==
    components.earnings_score + components.relative_strength_score
    + components.price_near_high_score + components.volume_increase_score

\* a score that only has to reach min_score to be left out
BelowMinScore_OrEqual(total_score, row, params) ==
    total_score <= params.min_score * PctDen * ScoreUnit(row, params)

\* total_score < self.params.min_score
BelowMinScore(total_score, row, params) ==
    total_score < params.min_score * PctDen * ScoreUnit(row, params)

\* CanSlimStrategy.generate_signals, lines 65-81
CanSlimSignals(symbol, df, params) ==
    LET latest           == df[Len(df)]
        score_components == CalculateComponents(latest, params)
        total_score      == TotalScore(score_components)
        metadata         ==
            [k \in DOMAIN score_components \cup {"total_score"} |->
                IF k = "total_score" THEN total_score ELSE score_components[k]]
    IN  IF BelowMinScore(total_score, latest, params) THEN <<>>
        ELSE << Signal(symbol, latest.date, "can_slim", "BUY",
                       [num |-> total_score, den |-> ScoreDen(latest, params)],
                       metadata) >>

\* comparisons of two values either of which may be NaN: False on a NaN
Gt(x, y) == NotNa(x) /\ NotNa(y) /\ x[1] > y[1]
Ge(x, y) == NotNa(x) /\ NotNa(y) /\ x[1] >= y[1]
Lt(x, y) == Gt(y, x)
Le(x, y) == Ge(y, x)

\* min(1.0, max(0.0, num / den)) for a positive den, as [num, den]
Clamp(num, den) == [num |-> Min(den, Max(0, num)), den |-> den]

\* TrendFollowingParams, its defaults
TrendDefaults ==
    [fast_span |-> 10, slow_span |-> 30, atr_period |-> 14,
     atr_multiplier |-> 2, min_bars |-> 60]

\* lines 59-98 for one row.  The row holds close and the columns the code
\* adds at lines 48-54: fast_ema, slow_ema, atr, and the EMAs of the row
\* before it (shift(1)).
TrendSignal(symbol, row, params) ==
    LET crossover_up   == Gt(row.fast_ema, row.slow_ema)
                          /\ Le(row.prev_fast, row.prev_slow)
        crossover_down == Lt(row.fast_ema, row.slow_ema)
                          /\ Ge(row.prev_fast, row.prev_slow)
        fast           == row.fast_ema[1]
        slow           == row.slow_ema[1]
    IN  IF ~NotNa(row.fast_ema) \/ ~NotNa(row.slow_ema) \/ ~NotNa(row.atr)
        THEN <<>>
        ELSE IF crossover_up /\ row.close > fast
        THEN << Signal(symbol, row.date, "trend_following", "BUY",
                       Clamp(5 * (fast - slow), slow),
                       [fast_ema |-> fast, slow_ema |-> slow, atr |-> row.atr[1],
                        stop_price |-> row.close
                                       - params.atr_multiplier * row.atr[1]]) >>
        ELSE IF crossover_down
        THEN << Signal(symbol, row.date, "trend_following", "SELL",
                       Clamp(5 * (slow - fast), slow),
                       [fast_ema |-> fast, slow_ema |-> slow]) >>
        ELSE <<>>

\* LivermoreParams, its defaults
LivermoreDefaults ==
    [consolidation_window |-> 20, max_range_percentage |-> 15,
     breakout_threshold |-> 2, volume_multiplier |-> 130, min_bars |-> 40]

\* lines 54-97 for one row.  The row holds close, volume and what lines
\* 46-52 and 73 compute for it: window_high, window_low (the rolling high
\* and low of the bars before it) and volume_avg.  Prices are positive.
LivermoreSignal(symbol, row, params) ==
    LET window_high == row.window_high[1]
        window_low  == row.window_low[1]
        price_range == window_high - window_low
        limit       == params.max_range_percentage * window_low
    IN  IF ~NotNa(row.window_high) \/ ~NotNa(row.window_low)
           \/ window_high <= window_low
        THEN <<>>
        ELSE IF price_range <= 0 THEN <<>>
        ELSE IF PctDen * price_range > limit THEN <<>>
        ELSE IF PctDen * row.close < window_high * (PctDen + params.breakout_threshold)
        THEN <<>>
        ELSE IF NotNa(row.volume_avg) /\ row.volume_avg[1] <= 0 THEN <<>>
        ELSE IF NotNa(row.volume_avg)
                /\ PctDen * row.volume < row.volume_avg[1] * params.volume_multiplier
        THEN <<>>
        ELSE << Signal(symbol, row.date, "livermore_breakout", "BUY",
                       [num |-> limit - Min(limit, PctDen * price_range),
                        den |-> limit],
                       [consolidation_high |-> window_high,
                        consolidation_low  |-> window_low,
                        breakout_price     |-> row.close,
                        breakout_volume    |-> row.volume]) >>

\* DanZangerParams, its defaults
DanZangerDefaults ==
    [cup_lookback |-> 120, handle_min |-> 5, handle_max |-> 15,
     cup_depth_min |-> 12, cup_depth_max |-> 35, recovery_threshold |-> 85,
     handle_pullback_min |-> 5, handle_pullback_max |-> 15,
     breakout_threshold |-> 2, volume_multiplier |-> 150,
     volume_mean_window |-> 20]

\* lines 54-142 for one breakout row.  The row holds close, volume and what
\* lines 62-91 and 111 measure in the window that ends with it: the handle's
\* high and low, the cup's left peak, bottom and right peak, avg_volume.
CupHandleSignal(symbol, row, params) ==
    LET handle_pullback == PctDen * (row.handle_high - row.handle_low)
        cup_depth       == PctDen * (row.left_peak - row.cup_bottom)
        span            == row.left_peak - row.cup_bottom
        recovered       == row.right_peak - row.cup_bottom
    IN  IF row.handle_high <= 0 THEN <<>>
        ELSE IF ~(params.handle_pullback_min * row.handle_high <= handle_pullback
                  /\ handle_pullback <= params.handle_pullback_max * row.handle_high)
        THEN <<>>
        ELSE IF row.left_peak <= 0 \/ row.right_peak <= 0 THEN <<>>
        ELSE IF ~(params.cup_depth_min * row.left_peak <= cup_depth
                  /\ cup_depth <= params.cup_depth_max * row.left_peak)
        THEN <<>>
        ELSE IF row.left_peak = row.cup_bottom THEN <<>>
        ELSE IF PctDen * recovered < params.recovery_threshold * span THEN <<>>
        ELSE IF PctDen * row.close
                < row.right_peak * (PctDen + params.breakout_threshold)
        THEN <<>>
        ELSE IF NotNa(row.avg_volume) /\ row.avg_volume[1] <= 0 THEN <<>>
        ELSE IF NotNa(row.avg_volume)
                /\ PctDen * row.volume < row.avg_volume[1] * params.volume_multiplier
        THEN <<>>
        ELSE << Signal(symbol, row.date, "dan_zanger_cup_handle", "BUY",
                       Clamp((60 - params.recovery_threshold) * span
                             + PctDen * recovered,
                             PctDen * span),
                       [left_peak |-> row.left_peak, cup_bottom |-> row.cup_bottom,
                        right_peak |-> row.right_peak,
                        breakout_price |-> row.close,
                        breakout_volume |-> row.volume]) >>

\* the signal of one row, by strategy
RowSignal(strategy, symbol, row, params) ==
    CASE strategy = "trend_following" -> TrendSignal(symbol, row, params)
      [] strategy = "livermore_breakout" -> LivermoreSignal(symbol, row, params)
      [] strategy = "dan_zanger_cup_handle" -> CupHandleSignal(symbol, row, params)

\* the loop over the rows: the signals in the order of the rows
RECURSIVE ScanRows(_, _, _, _)
ScanRows(strategy, symbol, rows, params) ==
    IF rows = <<>> THEN <<>>
    ELSE RowSignal(strategy, symbol, Head(rows), params)
         \o ScanRows(strategy, symbol, Tail(rows), params)

\* the fewest rows a strategy goes on with
MinBars(strategy, params) ==
    CASE strategy = "can_slim" -> 1
      [] strategy = "trend_following" ->
             Max(params.min_bars, params.slow_span + params.atr_period)
      [] strategy = "livermore_breakout" ->
             Max(params.min_bars, params.consolidation_window + 5)
      [] strategy = "dan_zanger_cup_handle" -> params.cup_lookback

\* ------------------------------------------------------------------------
\* BacktestingEngine (backtesting/engine.py): helpers
\* ------------------------------------------------------------------------
RowDate(row) == row.date

\* the rows as they were handed in
SortIndex_AsGiven(rows) == rows

\* price_data.sort_index(): the rows in ascending order of their date
SortIndex(rows) == StableSortBy(rows, [i \in 1..Len(rows) |-> RowDate(rows[i])])

\* frame.index
Index(frame) == [i \in 1..Len(frame) |-> frame[i].date]

\* only a target that is an index date is aligned
AlignDate_Exact(target, index) ==
    IF \E i \in 1..Len(index) : index[i] = target THEN <<target>> ELSE <<>>

\* the first index date > target: searchsorted(target, side="right")
AlignDate_Right(target, index) ==
    LET pos == Cardinality({i \in 1..Len(index) : index[i] <= target})
    IN  IF index = <<>> THEN <<>>
        ELSE IF pos >= Len(index) THEN <<>>
        ELSE <<index[pos + 1]>>

\* _align_date: the first index date >= target, as <<date>>; <<>> for None.
\* searchsorted(target) on a sorted index counts the dates before target.
AlignDate(target, index) ==
    LET pos == Cardinality({i \in 1..Len(index) : index[i] < target})
    IN  IF index = <<>> THEN <<>>
        ELSE IF pos >= Len(index) THEN <<>>
        ELSE <<index[pos + 1]>>

\* the close of symbol in the first row, whatever the date
GetClose_FirstRow(frame, date, symbol) == frame[1].close[symbol]

\* _get_close: the close of symbol in the row of date
GetClose(frame, date, symbol) ==
    LET i == CHOOSE k \in 1..Len(frame) : frame[k].date = date
    IN  frame[i].close[symbol]

\* the metadata keys _signal_price tries, in order
SignalPriceKeys == <<"price", "entry_price", "close", "breakout_price">>

\* _signal_price: the first metadata key present, else the close
SignalPrice(signal, frame, date, symbol) ==
    LET m == FirstKey(signal.metadata, SignalPriceKeys)
    IN  IF m # <<>> THEN m[1] ELSE GetClose(frame, date, symbol)

SignalDate(s) == s.date

\* per symbol, its signals of the type in input order
SignalsBySymbol_InputOrder(signals, signal_type) ==
    [sym \in Symbols |->
        SelectSeq(signals, LAMBDA s : s.signal_type = signal_type
                                      /\ s.symbol = sym)]

\* _signals_by_symbol: per symbol, its signals of the type sorted by date
\* (list.sort is stable); a symbol without any maps to the empty list
SignalsBySymbol(signals, signal_type) ==
    [sym \in Symbols |->
        LET mine == SelectSeq(signals, LAMBDA s : s.signal_type = signal_type
                                                  /\ s.symbol = sym)
        IN  StableSortBy(mine, [i \in 1..Len(mine) |-> SignalDate(mine[i])])]

\* per index date, the signals of the type aligned to it or to an earlier
\* date
SignalsByDate_Carried(signals, signal_type, index) ==
    [d \in {index[i] : i \in 1..Len(index)} |->
        SelectSeq(signals, LAMBDA s : /\ s.signal_type = signal_type
                                      /\ AlignDate(s.date, index) # <<>>
                                      /\ AlignDate(s.date, index)[1] <= d)]

\* _signals_by_date: per index date, the signals of the type aligned to it,
\* in input order; signals that align to no date are left out
SignalsByDate(signals, signal_type, index) ==
    [d \in {index[i] : i \in 1..Len(index)} |->
        SelectSeq(signals, LAMBDA s : s.signal_type = signal_type
                                      /\ AlignDate(s.date, index) = <<d>>)]

\* allocation.get("symbol") or fallback_symbol
AllocSymbol(allocation, fallback_symbol) ==
    IF Has(allocation, "symbol") THEN allocation["symbol"] ELSE fallback_symbol

\* allocation.get("entry_price") or _signal_price(...)
EntryPrice(allocation, signal, frame, aligned_date, symbol) ==
    IF Has(allocation, "entry_price") /\ allocation["entry_price"] # 0
    THEN allocation["entry_price"]
    ELSE SignalPrice(signal, frame, aligned_date, symbol)

\* allocation.get("shares"), else allocation_value // price when positive
EntryShares(allocation, price) ==
    IF Has(allocation, "shares") THEN allocation["shares"]
    ELSE LET allocation_value == IF Has(allocation, "allocation")
                                 THEN allocation["allocation"] ELSE 0
         IN  IF allocation_value > 0 THEN allocation_value \div price ELSE 0

\* _prepare_entries from allocation i on; buy_signals loses the head of a
\* symbol's list each time an allocation of that symbol finds one
RECURSIVE PrepareEntries(_, _, _, _, _, _)
PrepareEntries(allocations, i, buy_signals, frame, fallback_symbol, entries) ==
    IF i > Len(allocations) THEN entries
    ELSE
      LET allocation == allocations[i]
          symbol     == AllocSymbol(allocation, fallback_symbol)
          signals    == IF symbol \in DOMAIN buy_signals
                        THEN buy_signals[symbol] ELSE <<>>
          signal     == Head(signals)
          rest       == [buy_signals EXCEPT ![symbol] = Tail(signals)]
          aligned    == AlignDate(signal.date, Index(frame))
          price      == EntryPrice(allocation, signal, frame, aligned[1], symbol)
          shares     == EntryShares(allocation, price)
          entry      == [symbol |-> symbol, shares |-> shares, price |-> price,
                         date |-> aligned[1], strategy |-> signal.strategy]
      IN  IF signals = <<>>
          THEN PrepareEntries(allocations, i + 1, buy_signals, frame,
                              fallback_symbol, entries)
          ELSE IF aligned = <<>> \/ price <= 0 \/ shares <= 0
          THEN PrepareEntries(allocations, i + 1, rest, frame,
                              fallback_symbol, entries)
          ELSE PrepareEntries(allocations, i + 1, rest, frame,
                              fallback_symbol, Append(entries, entry))

\* entries_by_date[date]: the entries of the date, in their order
EntriesOn(entries, date) == SelectSeq(entries, LAMBDA e : e.date = date)

\* the cap with the fee left out of the divisor
MaxAffordable_FeeFree(cash, price, tc) == cash \div (price * TcDen)

\* int(cash // (price * (1 + transaction_cost))), cash in 1/TcDen
MaxAffordable(cash, price, tc) == cash \div (price * (TcDen + tc))

\* the entry loop of one date from entry i on; st = [cash, positions, trades]
RECURSIVE FillLoop(_, _, _, _, _)
FillLoop(todo, i, st, tc, current_date) ==
    IF i > Len(todo) THEN st
    ELSE
      LET entry          == todo[i]
          price          == entry.price
          max_affordable == MaxAffordable(st.cash, price, tc)
          shares         == Min(entry.shares, max_affordable)
          cost           == shares * price
          fees           == cost * tc
          position       == [shares |-> shares, entry_price |-> price,
                             entry_date |-> current_date,
                             strategy |-> entry.strategy, entry_fees |-> fees]
          trade          == [action |-> "BUY", symbol |-> entry.symbol,
                             date |-> current_date, shares |-> shares,
                             price |-> price, value |-> cost * TcDen,
                             fees |-> fees, strategy |-> entry.strategy]
      IN  IF entry.shares <= 0 \/ max_affordable <= 0
          THEN FillLoop(todo, i + 1, st, tc, current_date)
          ELSE FillLoop(todo, i + 1,
                        [cash      |-> st.cash - (cost * TcDen + fees),
                         positions |-> [s \in DOMAIN st.positions \cup {entry.symbol} |->
                                           IF s = entry.symbol THEN position
                                           ELSE st.positions[s]],
                         trades    |-> Append(st.trades, trade)],
                        tc, current_date)

\* the profit with the fee of the opening fill left out
Pnl_NoEntryFees(proceeds, fees, position) ==
    proceeds - fees - position.shares * position.entry_price * TcDen

\* line 106: pnl = proceeds - fees - shares * entry_price - entry_fees
Pnl(proceeds, fees, position) ==
    proceeds - fees - position.shares * position.entry_price * TcDen
    - position.entry_fees

\* the SELL loop of one date from signal i on
RECURSIVE SellLoop(_, _, _, _, _, _)
SellLoop(todo, i, st, tc, frame, current_date) ==
    IF i > Len(todo) THEN st
    ELSE
      LET sell_signal == todo[i]
          symbol      == sell_signal.symbol
          price       == SignalPrice(sell_signal, frame, current_date, symbol)
          position    == st.positions[symbol]
          shares      == position.shares
          proceeds    == shares * price * TcDen
          fees        == shares * price * tc
          pnl         == Pnl(proceeds, fees, position)
          trade       == [action |-> "SELL", symbol |-> symbol,
                          date |-> current_date, shares |-> shares,
                          price |-> price, value |-> proceeds, fees |-> fees,
                          strategy |-> sell_signal.strategy, pnl |-> pnl]
      IN  IF symbol \notin DOMAIN st.positions
          THEN SellLoop(todo, i + 1, st, tc, frame, current_date)
          ELSE SellLoop(todo, i + 1,
                        [cash      |-> st.cash + proceeds - fees,
                         positions |-> [s \in DOMAIN st.positions \ {symbol} |->
                                           st.positions[s]],
                         trades    |-> Append(st.trades, trade)],
                        tc, frame, current_date)

\* equity = cash + sum over the open positions of shares * close
RECURSIVE PositionsValue(_, _, _, _)
PositionsValue(positions, syms, frame, current_date) ==
    IF syms = {} THEN 0
    ELSE LET sym == CHOOSE s \in syms : TRUE
         IN  positions[sym].shares * GetClose(frame, current_date, sym) * TcDen
             + PositionsValue(positions, syms \ {sym}, frame, current_date)

\* the value of the open positions alone
Equity_PositionsOnly(cash, positions, frame, current_date) ==
    PositionsValue(positions, DOMAIN positions, frame, current_date)

Equity(cash, positions, frame, current_date) ==
    cash + PositionsValue(positions, DOMAIN positions, frame, current_date)

\* calculate_drawdowns (portfolio/drawdown_monitor.py): the largest
\* (running_max - value) / running_max, as [num, den]; best is the largest
\* so far and peak the running maximum
RECURSIVE DrawdownLoop(_, _, _, _)
DrawdownLoop(values, i, peak, best) ==
    IF i > Len(values) THEN best
    ELSE LET running_max == Max(peak, values[i])
             num         == running_max - values[i]
         IN  DrawdownLoop(values, i + 1, running_max,
                          IF num * best.den > best.num * running_max
                          THEN [num |-> num, den |-> running_max]
                          ELSE best)

\* equity_curve.cummax() at position i
CumMax(values, i) ==
    CHOOSE m \in {values[k] : k \in 1..i} : \A k \in 1..i : values[k] <= m

\* (equity_curve - running_max) / running_max, each as [num, den]
Drawdowns(values) ==
    [i \in 1..Len(values) |->
        [num |-> values[i] - CumMax(values, i), den |-> CumMax(values, i)]]

\* the largest decline from the first value alone
MaxDrawdown_FromFirst(values) ==
    IF values = <<>> THEN [num |-> 0, den |-> 1]
    ELSE LET low == CHOOSE v \in {values[k] : k \in 1..Len(values)} :
                        \A k \in 1..Len(values) : v <= values[k]
         IN  [num |-> values[1] - low, den |-> values[1]]

MaxDrawdown(values) ==
    IF values = <<>> THEN [num |-> 0, den |-> 1]
    ELSE DrawdownLoop(values, 1, values[1], [num |-> 0, den |-> 1])

\* ------------------------------------------------------------------------
\* The position_sizer callables handed to run()
\* ------------------------------------------------------------------------
\* the risk configuration of the PositionSizer that main.py wires in
EngineRisk == [max_positions |-> 2, individual_stop |-> 8,
               sector_limits |-> [s \in {"other"} |-> PctDen]]

Buys(signals) == SelectSeq(signals, LAMBDA s : s.signal_type = "BUY")

\* tests: lambda signals, equity: []
EmptySizer(signals, equity) == <<>>

\* tests: half_sizer, half of the equity on the first BUY signal at its
\* metadata price, else at the first row's close
HalfSizer(signals, equity, data) ==
    LET buys   == Buys(signals)
        first  == buys[1]
        price  == IF Has(first.metadata, "price") THEN first.metadata["price"]
                  ELSE data[1].close[first.symbol]
        shares == equity \div (2 * price)
    IN  IF buys = <<>> THEN <<>>
        ELSE << [symbol |-> first.symbol, shares |-> shares,
                 entry_price |-> price, allocation |-> shares * price] >>

\* main.py build_position_sizer: PositionSizer.size_positions without a
\* sector map, each allocation as a dict
ConfigSizer(signals, equity) == SizePositions(signals, equity, <<>>, EngineRisk)

\* a caller's sizer that names only an allocation value: the whole equity
\* for every BUY signal in turn, and one more allocation without a symbol
CustomSizer(signals, equity) ==
    LET buys == Buys(signals)
    IN  [i \in 1..Len(buys) |-> [symbol |-> buys[i].symbol, allocation |-> equity]]
        \o << [allocation |-> equity] >>

SizerKinds == {"empty", "half", "config", "custom"}

\* position_sizer(signals, float(initial_capital)) or []
CallSizer(kind, signals, equity, data) ==
    CASE kind = "empty"  -> EmptySizer(signals, equity)
      [] kind = "half"   -> HalfSizer(signals, equity, data)
      [] kind = "config" -> ConfigSizer(signals, equity)
      [] kind = "custom" -> CustomSizer(signals, equity)

\* ------------------------------------------------------------------------
\* State
\* ------------------------------------------------------------------------
VARIABLES
    \* BacktestingEngine: the field and the arguments of run()
    transaction_cost, price_data, strategy_signals, position_sizer,
    initial_capital,
    \* run(): where it is, and its locals
    pc, frame, allocations, pending_entries, sell_signals_by_date, di,
    cash, positions, trades, equity_values,
    \* the collaborators run() has called so far, in order
    calls,
    \* the BacktestResult returned, the number of the run, the first result
    result, run_no, first_result,
    \* PositionSizer.size_positions: the call, where it is, what it returned
    sizer_call, sizer_pc, sizer_result,
    \* SignalAggregator.aggregate: the call, where it is, what it returned
    agg_call, agg_pc, agg_result,
    \* Strategy.generate_signals: the call, where it is, how it ended
    strat_call, strat_pc, strat_result,
    \* calculate_drawdowns: the call, where it is, what it returned
    dd_call, dd_pc, dd_result

inputVars  == <<transaction_cost, price_data, strategy_signals, position_sizer,
                initial_capital>>
localVars  == <<frame, allocations, pending_entries, sell_signals_by_date, di,
                cash, positions, trades, equity_values, calls>>
engineVars == <<inputVars, pc, localVars, result, run_no, first_result>>
sizerVars  == <<sizer_call, sizer_pc, sizer_result>>
aggVars    == <<agg_call, agg_pc, agg_result>>
stratVars  == <<strat_call, strat_pc, strat_result>>
ddVars     == <<dd_call, dd_pc, dd_result>>
vars       == <<engineVars, sizerVars, aggVars, stratVars, ddVars>>

NoResult == [equity_curve |-> <<>>, trades |-> <<>>, metrics |-> <<>>]

\* ------------------------------------------------------------------------
\* Inputs of the engine runs
\* ------------------------------------------------------------------------
\* the dates of the generic frames: 1, 3, 4, ... (no row for date 2)
SeriesDate(i) == IF i = 1 THEN 1 ELSE i + 1

\* what a signal's date may be: every frame date, the gap, one past the end
NominalDates == 1..(NumDates + 2)

\* closes rising for A, flat for B; rows in calendar order
RisingFrame == [i \in 1..NumDates |->
                   [date |-> SeriesDate(i), close |-> [A |-> i + 1, B |-> 3]]]

\* closes falling for A, flat for B; rows listed latest first
FallingFrame == [i \in 1..NumDates |->
                   [date  |-> SeriesDate(NumDates + 1 - i),
                    close |-> [A |-> i + 1, B |-> 2]]]

PriceFrames == {RisingFrame, FallingFrame}

\* transaction_cost: 0 (tests) or 0.001 (the default)
CostChoices == {0, 1}

\* the metadata the signals of a run carry: none, or a price (3 on a BUY
\* signal, 4 on a SELL signal)
MetaFor(kind, signal_type) ==
    IF kind = "price"
    THEN [k \in {"price"} |-> IF signal_type = "BUY" THEN 3 ELSE 4]
    ELSE NoMeta

\* the sizer of a run and the metadata of its signals
Setups == {<<"half", "none">>, <<"config", "price">>, <<"custom", "none">>}

StrategyOutput(shapes, kind) ==
    [i \in 1..Len(shapes) |->
        Signal(shapes[i].symbol, shapes[i].date, "dummy",
               shapes[i].signal_type, 50, MetaFor(kind, shapes[i].signal_type))]

SignalShapes == [symbol : Symbols, date : NominalDates, signal_type : {"BUY", "SELL"}]

\* initial_capital of the generic runs, and of the runs without allocations
GenericCapitals == {10}
FlatCapitals == {1, 10}

\* the worked scenario of tests/test_backtesting.py
ScenarioFrame ==
    LET closes == <<100, 102, 105, 108, 110>>
    IN  [i \in 1..5 |-> [date |-> i, close |-> [A |-> closes[i], B |-> closes[i]]]]

ScenarioSignals ==
    << Signal("A", 2, "dummy", "BUY", 50, [k \in {"price"} |-> 102]),
       Signal("A", 5, "dummy", "SELL", 50, [k \in {"price"} |-> 110]) >>

ScenarioCapital == 100000

\* no call of the sizer or of the aggregator in the engine runs
SizerOff == sizer_call = <<>> /\ sizer_pc = "off" /\ sizer_result = <<>>
AggOff   == agg_call = <<>> /\ agg_pc = "off" /\ agg_result = <<>>
StrategyOff == strat_call = <<>> /\ strat_pc = "off" /\ strat_result = <<>>
DrawdownOff == dd_call = <<>> /\ dd_pc = "off" /\ dd_result = <<>>

InitLocals ==
    /\ frame = <<>>
    /\ allocations = <<>>
    /\ pending_entries = <<>>
    /\ sell_signals_by_date = <<>>
    /\ di = 0
    /\ cash = 0
    /\ positions = <<>>
    /\ trades = <<>>
    /\ equity_values = <<>>
    /\ calls = <<>>
    /\ result = NoResult
    /\ run_no = 1
    /\ first_result = NoResult

InitGeneric ==
    /\ transaction_cost \in CostChoices
    /\ price_data \in PriceFrames
    /\ \E shapes \in SeqsUpTo(SignalShapes, MaxSignals), setup \in Setups :
          /\ strategy_signals = StrategyOutput(shapes, setup[2])
          /\ position_sizer = setup[1]
    /\ initial_capital \in GenericCapitals
    /\ InitLocals

\* runs whose sizer returns nothing, whatever the signals
InitFlat ==
    /\ transaction_cost \in CostChoices
    /\ price_data \in PriceFrames
    /\ \E shapes \in SeqsUpTo(SignalShapes, 1), kind \in {"none", "price"} :
          strategy_signals = StrategyOutput(shapes, kind)
    /\ position_sizer = "empty"
    /\ initial_capital \in FlatCapitals
    /\ InitLocals

InitScenario ==
    /\ transaction_cost = 0
    /\ price_data = ScenarioFrame
    /\ strategy_signals = ScenarioSignals
    /\ position_sizer = "half"
    /\ initial_capital = ScenarioCapital
    /\ InitLocals

\* the metadata of a SELL signal: any of the four price keys, each with a
\* value of its own
PriceKeyValues ==
    [k \in {"entry_price", "breakout_price", "price", "close"} |->
        CASE k = "entry_price" -> 5
          [] k = "breakout_price" -> 6
          [] k = "price" -> 7
          [] k = "close" -> 8]

KeyedMetadata == { [k \in keys |-> PriceKeyValues[k]] : keys \in SUBSET DOMAIN PriceKeyValues }

\* runs that buy A on the first date and sell it on the last, the SELL
\* signal carrying the price keys
InitKeys ==
    /\ transaction_cost \in CostChoices
    /\ price_data = RisingFrame
    /\ \E metadata \in KeyedMetadata :
          strategy_signals =
              << Signal("A", 1, "dummy", "BUY", 50, NoMeta),
                 Signal("A", NumDates + 1, "dummy", "SELL", 50, metadata) >>
    /\ position_sizer = "half"
    /\ initial_capital \in GenericCapitals
    /\ InitLocals

InitEngine ==
    /\ InitGeneric \/ InitFlat \/ InitScenario \/ InitKeys
    /\ pc = "idle"
    /\ SizerOff
    /\ AggOff
    /\ StrategyOff
    /\ DrawdownOff

\* ------------------------------------------------------------------------
\* run(), step by step
\* ------------------------------------------------------------------------
\* the SELL signals of a date ahead of its entries
DatePhases_SellFirst == <<"sell", "buy", "equity">>

\* the body of the loop over frame.index: the entries of the date (line
\* 63), its SELL signals (line 96), its equity (line 121)
DatePhases == <<"buy", "sell", "equity">>

\* the phase that follows phase on the same date
PhaseAfter(phase) ==
    DatePhases[(CHOOSE i \in 1..Len(DatePhases) : DatePhases[i] = phase) + 1]

\* a run that goes ahead on no capital at all
RunRejects_NegativeOnly(data, capital) == data = <<>> \/ capital < 0

\* lines 38-41: price_data.empty or initial_capital <= 0 raises ValueError
RunRejects(data, capital) == data = <<>> \/ capital <= 0

\* a run that appends to the trades of the run before it
StartRun_KeepsTrades ==
    /\ pc = "idle"
    /\ ~RunRejects(price_data, initial_capital)
    /\ LET sorted  == SortIndex(price_data)
           signals == strategy_signals
           allocs  == CallSizer(position_sizer, signals, initial_capital, price_data)
       IN  /\ frame' = sorted
           /\ allocations' = allocs
           /\ pending_entries' =
                  PrepareEntries(allocs, 1, SignalsBySymbol(signals, "BUY"),
                                 sorted, FallbackSymbol, <<>>)
           /\ sell_signals_by_date' = SignalsByDate(signals, "SELL", Index(sorted))
    /\ cash' = initial_capital * TcDen
    /\ positions' = <<>>
    /\ trades' = trades
    /\ equity_values' = <<>>
    /\ calls' = <<"generate_signals", "position_sizer">>
    /\ di' = 1
    /\ pc' = DatePhases[1]
    /\ UNCHANGED <<inputVars, result, run_no, first_result, sizerVars, aggVars, stratVars, ddVars>>

\* lines 38-60: validation, signals, sizing, scheduling, fresh locals
StartRun ==
    /\ pc = "idle"
    /\ ~RunRejects(price_data, initial_capital)
    /\ LET sorted  == SortIndex(price_data)
           signals == strategy_signals
           allocs  == CallSizer(position_sizer, signals, initial_capital, price_data)
       IN  /\ frame' = sorted
           /\ allocations' = allocs
           /\ pending_entries' =
                  PrepareEntries(allocs, 1, SignalsBySymbol(signals, "BUY"),
                                 sorted, FallbackSymbol, <<>>)
           /\ sell_signals_by_date' = SignalsByDate(signals, "SELL", Index(sorted))
    /\ cash' = initial_capital * TcDen
    /\ positions' = <<>>
    /\ trades' = <<>>
    /\ equity_values' = <<>>
    /\ calls' = <<"generate_signals", "position_sizer">>
    /\ di' = 1
    /\ pc' = DatePhases[1]
    /\ UNCHANGED <<inputVars, result, run_no, first_result, sizerVars, aggVars, stratVars, ddVars>>

\* lines 63-94: the entries scheduled for the current date
FillEntries ==
    /\ pc = "buy"
    /\ LET current_date == frame[di].date
           st == FillLoop(EntriesOn(pending_entries, current_date), 1,
                          [cash |-> cash, positions |-> positions, trades |-> trades],
                          transaction_cost, current_date)
       IN  /\ cash' = st.cash
           /\ positions' = st.positions
           /\ trades' = st.trades
    /\ pc' = PhaseAfter("buy")
    /\ UNCHANGED <<inputVars, frame, allocations, pending_entries,
                   sell_signals_by_date, di, equity_values, calls, result,
                   run_no, first_result, sizerVars, aggVars, stratVars, ddVars>>

\* lines 96-119: the SELL signals aligned to the current date
ProcessSells ==
    /\ pc = "sell"
    /\ LET current_date == frame[di].date
           st == SellLoop(sell_signals_by_date[current_date], 1,
                          [cash |-> cash, positions |-> positions, trades |-> trades],
                          transaction_cost, frame, current_date)
       IN  /\ cash' = st.cash
           /\ positions' = st.positions
           /\ trades' = st.trades
    /\ pc' = PhaseAfter("sell")
    /\ UNCHANGED <<inputVars, frame, allocations, pending_entries,
                   sell_signals_by_date, di, equity_values, calls, result,
                   run_no, first_result, sizerVars, aggVars, stratVars, ddVars>>

\* lines 121-125: the equity of the current date, then the next date
RecordEquity ==
    /\ pc = "equity"
    /\ equity_values' =
           Append(equity_values, Equity(cash, positions, frame, frame[di].date))
    /\ IF di < Len(frame)
       THEN di' = di + 1 /\ pc' = DatePhases[1]
       ELSE di' = di /\ pc' = "metrics"
    /\ UNCHANGED <<inputVars, frame, allocations, pending_entries,
                   sell_signals_by_date, cash, positions, trades, calls, result,
                   run_no, first_result, sizerVars, aggVars, stratVars, ddVars>>

\* pd.Series(equity_values, index=frame.index)
EquityCurve(values, index) ==
    [i \in 1..Len(values) |-> [date |-> index[i], value |-> values[i]]]

\* lines 127-137
Metrics(values, capital, trade_log) ==
    LET final_equity == values[Len(values)]
    IN  [final        |-> final_equity,
         total_return |-> [num |-> final_equity - capital * TcDen,
                           den |-> capital * TcDen],
         max_drawdown |-> MaxDrawdown(values),
         num_trades   |-> Len(trade_log)]

\* lines 127-143: the result
Finish ==
    /\ pc = "metrics"
    /\ result' = [equity_curve |-> EquityCurve(equity_values, Index(frame)),
                  trades       |-> trades,
                  metrics      |-> Metrics(equity_values, initial_capital, trades)]
    /\ pc' = "done"
    /\ UNCHANGED <<inputVars, localVars, run_no, first_result, sizerVars, aggVars, stratVars, ddVars>>

\* the caller keeps the first result and calls run() again on the same
\* engine with the same arguments
RunAgain ==
    /\ pc = "done"
    /\ run_no = 1
    /\ first_result' = result
    /\ run_no' = 2
    /\ pc' = "idle"
    /\ UNCHANGED <<inputVars, localVars, result, sizerVars, aggVars, stratVars, ddVars>>

\* one run of the engine
Next == StartRun \/ FillEntries \/ ProcessSells \/ RecordEquity \/ Finish

Spec == InitEngine /\ [][Next]_vars

\* two runs in a row on one engine, under the sizer of main.py
InitTwice ==
    /\ InitEngine
    /\ position_sizer \in {"config", "empty"}
    /\ transaction_cost = 1

NextTwice == Next \/ RunAgain

SpecTwice == InitTwice /\ [][NextTwice]_vars

\* ------------------------------------------------------------------------
\* Construction and run() on arguments nobody has checked
\* ------------------------------------------------------------------------
\* transaction_cost as handed to the constructor
UncheckedCosts == CostChoices \cup {-1}

\* price_data as handed to run(): also a frame without rows
UncheckedFrames == PriceFrames \cup {<<>>}

\* initial_capital as handed to run()
UncheckedCapitals == GenericCapitals \cup {0, -10}

\* before BacktestingEngine(transaction_cost) is called
InitUnchecked ==
    /\ transaction_cost \in UncheckedCosts
    /\ price_data \in UncheckedFrames
    /\ \E shapes \in SeqsUpTo(SignalShapes, 1) :
          strategy_signals = StrategyOutput(shapes, "price")
    /\ position_sizer = "config"
    /\ initial_capital \in UncheckedCapitals
    /\ InitLocals
    /\ pc = "new"
    /\ SizerOff
    /\ AggOff
    /\ StrategyOff
    /\ DrawdownOff

\* __init__: a negative transaction_cost raises ValueError, and there is no
\* engine to run
Construct ==
    /\ pc = "new"
    /\ pc' = IF transaction_cost < 0 THEN "rejected" ELSE "idle"
    /\ UNCHANGED <<inputVars, localVars, result, run_no, first_result,
                   sizerVars, aggVars, stratVars, ddVars>>

\* run() raising ValueError at lines 38-41, ahead of everything else
RunFails ==
    /\ pc = "idle"
    /\ RunRejects(price_data, initial_capital)
    /\ pc' = "failed"
    /\ UNCHANGED <<inputVars, localVars, result, run_no, first_result,
                   sizerVars, aggVars, stratVars, ddVars>>

NextChecked == Construct \/ RunFails \/ Next

SpecChecked == InitUnchecked /\ [][NextChecked]_vars

\* ------------------------------------------------------------------------
\* Calls of PositionSizer.size_positions
\* ------------------------------------------------------------------------
\* no engine run in the sizer's and the aggregator's specifications
EngineOff ==
    /\ transaction_cost = 0
    /\ price_data = <<>>
    /\ strategy_signals = <<>>
    /\ position_sizer = "empty"
    /\ initial_capital = 0
    /\ InitLocals
    /\ pc = "off"

\* what a signal handed to the sizer is and carries
SizerSignalKinds ==
    { [signal_type |-> "BUY",  confidence |-> 50, metadata |-> [k \in {"entry_price"} |-> 2]],
      [signal_type |-> "BUY",  confidence |-> 80, metadata |-> [k \in {"entry_price"} |-> 2]],
      [signal_type |-> "BUY",  confidence |-> 80,
       metadata |-> [k \in {"price", "close"} |-> IF k = "price" THEN 1 ELSE 3]],
      [signal_type |-> "BUY",  confidence |-> 50, metadata |-> NoMeta],
      [signal_type |-> "BUY",  confidence |-> 80, metadata |-> [k \in {"close"} |-> 0]],
      [signal_type |-> "SELL", confidence |-> 90, metadata |-> [k \in {"entry_price"} |-> 2]] }

SizerSignals ==
    { Signal(sym, 1, "test_strategy", k.signal_type, k.confidence, k.metadata) :
          sym \in Symbols, k \in SizerSignalKinds }

\* sector_map: none, or A in a sector spelled with capitals
SectorMaps == {<<>>, [s \in {"A"} |-> "Tech"]}

SectorLimitChoices ==
    { [s \in {"tech", "other"} |-> IF s = "tech" THEN 30 ELSE 50],
      [s \in {"energy"} |-> 20] }

RiskChoices ==
    [max_positions : {1, 2, 3}, individual_stop : {8}, sector_limits : SectorLimitChoices]

SizerEquities == {10}

\* account_equity without anything to allocate: none, or a deficit
NoEquities == {0, -10}

InitSizer ==
    /\ EngineOff
    /\ AggOff
    /\ StrategyOff
    /\ DrawdownOff
    /\ sizer_call \in [signals        : SeqsUpTo(SizerSignals, MaxSizerSignals),
                       account_equity : SizerEquities \cup NoEquities,
                       sector_map     : SectorMaps,
                       risk           : RiskChoices]
    /\ sizer_pc = "ready"
    /\ sizer_result = <<>>

\* one call of size_positions
SizeStep ==
    /\ sizer_pc = "ready"
    /\ sizer_result' = SizePositions(sizer_call.signals, sizer_call.account_equity,
                                     sizer_call.sector_map, sizer_call.risk)
    /\ sizer_pc' = "done"
    /\ UNCHANGED <<sizer_call, engineVars, aggVars, stratVars, ddVars>>

NextSizer == SizeStep

SpecSizer == InitSizer /\ [][NextSizer]_vars

\* ------------------------------------------------------------------------
\* Calls of SignalAggregator.aggregate
\* ------------------------------------------------------------------------
\* the (symbol, signal_type) pairs of the signals handed to the aggregator
AggGroups == { <<"A", "BUY">>, <<"A", "SELL">>, <<"B", "BUY">> }

\* the metadata a strategy's signals carry
AggMeta(strategy) ==
    IF strategy = "trend_following"
    THEN [k \in {"source", "stop_price"} |-> IF k = "source" THEN strategy ELSE 1]
    ELSE [k \in {"source"} |-> strategy]

\* the strategy, confidence and date of a signal
AggSignalKinds ==
    { [strategy |-> "trend_following", confidence |-> 80, date |-> 1],
      [strategy |-> "trend_following", confidence |-> 50, date |-> 2],
      [strategy |-> "can_slim",        confidence |-> 70, date |-> 1],
      [strategy |-> "can_slim",        confidence |-> 50, date |-> 2],
      [strategy |-> "can_slim",        confidence |-> 80, date |-> 2] }

\* a signal whose metadata already has the key strategies, as the signals
\* that aggregate emits have; its value is kept as one name
Reaggregated ==
    Signal("A", 2, "aggregated", "BUY", 60,
           [k \in {"strategies"} |-> "can_slim"])

AggSignals ==
    { Signal(g[1], k.date, k.strategy, g[2], k.confidence, AggMeta(k.strategy)) :
          g \in AggGroups, k \in AggSignalKinds }
    \cup {Reaggregated}

\* AggregationParams: the defaults; the weights of the tests; a threshold
\* that an average can meet exactly; weights that sum to zero
AggParamChoices ==
    { [min_confidence |-> DefaultMinConfidence, weighting |-> <<>>],
      [min_confidence |-> 60,
       weighting |-> [s \in {"trend_following", "can_slim"} |->
                         IF s = "trend_following" THEN 200 ELSE 50]],
      [min_confidence |-> 75, weighting |-> <<>>],
      [min_confidence |-> DefaultMinConfidence,
       weighting |-> [s \in {"trend_following", "can_slim"} |-> 0]] }

InitAgg ==
    /\ EngineOff
    /\ SizerOff
    /\ StrategyOff
    /\ DrawdownOff
    /\ agg_call \in [signals : SeqsUpTo(AggSignals, MaxAggSignals),
                     params  : AggParamChoices]
    /\ agg_pc = "ready"
    /\ agg_result = <<>>

\* one call of aggregate
AggregateStep ==
    /\ agg_pc = "ready"
    /\ agg_result' = Aggregate(agg_call.signals, agg_call.params)
    /\ agg_pc' = "done"
    /\ UNCHANGED <<agg_call, engineVars, sizerVars, stratVars, ddVars>>

NextAgg == AggregateStep

SpecAgg == InitAgg /\ [][NextAgg]_vars

\* ------------------------------------------------------------------------
\* Calls of Strategy.generate_signals
\* ------------------------------------------------------------------------
\* generate_signals of the four strategies: nothing for an empty frame, a
\* ValueError for missing columns, nothing for too short a frame, else the
\* strategy's signals over the frame sorted by date
GenerateSignals(strategy, symbol, series, params) ==
    IF IsEmpty(series) THEN ReturnsSignals(<<>>)
    ELSE IF MissingColumns(strategy, series) # <<>>
    THEN RaisesMissing(MissingColumns(strategy, series))
    ELSE IF series.length < MinBars(strategy, params) THEN ReturnsSignals(<<>>)
    ELSE LET df == SortIndex(series.rows)
         IN  ReturnsSignals(IF strategy = "can_slim"
                            THEN CanSlimSignals(symbol, df, params)
                            ELSE ScanRows(strategy, symbol, df, params))

StrategyNames ==
    {"can_slim", "trend_following", "livermore_breakout", "dan_zanger_cup_handle"}

\* the parameters each strategy is built with when none are given
DefaultParams(strategy) ==
    CASE strategy = "can_slim" -> CanSlimDefaults
      [] strategy = "trend_following" -> TrendDefaults
      [] strategy = "livermore_breakout" -> LivermoreDefaults
      [] strategy = "dan_zanger_cup_handle" -> DanZangerDefaults

\* tests/test_canslim.py: custom weights and a lower min_score
CanSlimCustom ==
    [CanSlimDefaults EXCEPT
        !.min_score = 60,
        !.weights = [earnings |-> 40, relative_strength |-> 20,
                     price_near_high |-> 20, volume_increase |-> 20]]

ParamChoices(strategy) ==
    IF strategy = "can_slim" THEN {CanSlimDefaults, CanSlimCustom}
    ELSE {DefaultParams(strategy)}

\* every column the strategy requires
AllColumns(strategy) ==
    {RequiredColumns(strategy)[i] : i \in 1..Len(RequiredColumns(strategy))}

\* frames that lack columns: the second required one, all but close, all
IncompleteColumns(strategy) ==
    { AllColumns(strategy) \ {RequiredColumns(strategy)[2]}, {"close"}, {} }

\* the rows of a CAN SLIM frame: close, earnings_growth, relative_strength,
\* fifty_two_week_high, volume_change of one bar
CanSlimBars ==
    [close               : {<<80>>, <<98>>, <<110>>, NaN},
     earnings_growth     : {<<10>>, <<30>>, NaN},
     relative_strength   : {<<50>>, <<90>>, <<150>>, NaN},
     fifty_two_week_high : {<<100>>, <<0>>, NaN},
     volume_change       : {<<5>>, <<25>>, <<50>>}]

\* the bar of tests/test_canslim.py
TestBar ==
    [close |-> <<98>>, earnings_growth |-> <<30>>, relative_strength |-> <<90>>,
     fifty_two_week_high |-> <<100>>, volume_change |-> <<25>>]

Dated(bar, date) ==
    [f \in DOMAIN bar \cup {"date"} |-> IF f = "date" THEN date ELSE bar[f]]

\* CAN SLIM frames: a latest bar after up to MaxScan - 1 older ones, the
\* rows in calendar order or the latest first
CanSlimSeries ==
    { [columns |-> AllColumns("can_slim"), length |-> older + 1,
       rows |-> IF latest_first
                THEN <<Dated(bar, older + 1)>> \o [i \in 1..older |-> Dated(TestBar, i)]
                ELSE [i \in 1..older |-> Dated(TestBar, i)] \o <<Dated(bar, older + 1)>>] :
          bar \in CanSlimBars, older \in 0..(MaxScan - 1), latest_first \in BOOLEAN }

\* rows of a trend following frame
TrendRows ==
    { [close |-> 120, fast_ema |-> <<110>>, slow_ema |-> <<100>>,
       prev_fast |-> <<99>>, prev_slow |-> <<100>>, atr |-> <<2>>],
      [close |-> 140, fast_ema |-> <<130>>, slow_ema |-> <<100>>,
       prev_fast |-> <<99>>, prev_slow |-> <<100>>, atr |-> <<2>>],
      [close |-> 100, fast_ema |-> <<110>>, slow_ema |-> <<100>>,
       prev_fast |-> <<99>>, prev_slow |-> <<100>>, atr |-> <<2>>],
      [close |-> 90, fast_ema |-> <<95>>, slow_ema |-> <<100>>,
       prev_fast |-> <<100>>, prev_slow |-> <<100>>, atr |-> <<2>>],
      [close |-> 60, fast_ema |-> <<70>>, slow_ema |-> <<100>>,
       prev_fast |-> <<101>>, prev_slow |-> <<100>>, atr |-> <<2>>],
      [close |-> 120, fast_ema |-> <<110>>, slow_ema |-> <<100>>,
       prev_fast |-> <<99>>, prev_slow |-> <<100>>, atr |-> NaN],
      [close |-> 120, fast_ema |-> <<110>>, slow_ema |-> <<100>>,
       prev_fast |-> <<105>>, prev_slow |-> <<100>>, atr |-> <<2>>],
      [close |-> 120, fast_ema |-> <<110>>, slow_ema |-> <<100>>,
       prev_fast |-> NaN, prev_slow |-> NaN, atr |-> <<2>>] }

\* rows of a Livermore frame
LivermoreRows ==
    { [close |-> 108, volume |-> 20, window_high |-> <<105>>,
       window_low |-> <<100>>, volume_avg |-> <<10>>],
      [close |-> 118, volume |-> 20, window_high |-> <<115>>,
       window_low |-> <<100>>, volume_avg |-> <<10>>],
      [close |-> 130, volume |-> 20, window_high |-> <<120>>,
       window_low |-> <<100>>, volume_avg |-> <<10>>],
      [close |-> 106, volume |-> 20, window_high |-> <<105>>,
       window_low |-> <<100>>, volume_avg |-> <<10>>],
      [close |-> 108, volume |-> 12, window_high |-> <<105>>,
       window_low |-> <<100>>, volume_avg |-> <<10>>],
      [close |-> 108, volume |-> 20, window_high |-> NaN,
       window_low |-> NaN, volume_avg |-> <<10>>],
      [close |-> 108, volume |-> 20, window_high |-> <<105>>,
       window_low |-> <<100>>, volume_avg |-> NaN],
      [close |-> 108, volume |-> 20, window_high |-> <<100>>,
       window_low |-> <<100>>, volume_avg |-> <<10>>] }

\* rows of a cup-and-handle frame
CupHandleRows ==
    { [close |-> 102, volume |-> 30, handle_high |-> 100, handle_low |-> 90,
       left_peak |-> 100, cup_bottom |-> 80, right_peak |-> 100,
       avg_volume |-> <<10>>],
      [close |-> 125, volume |-> 30, handle_high |-> 100, handle_low |-> 90,
       left_peak |-> 100, cup_bottom |-> 80, right_peak |-> 120,
       avg_volume |-> <<10>>],
      [close |-> 99, volume |-> 30, handle_high |-> 100, handle_low |-> 90,
       left_peak |-> 100, cup_bottom |-> 80, right_peak |-> 97,
       avg_volume |-> <<10>>],
      [close |-> 102, volume |-> 30, handle_high |-> 100, handle_low |-> 98,
       left_peak |-> 100, cup_bottom |-> 80, right_peak |-> 100,
       avg_volume |-> <<10>>],
      [close |-> 102, volume |-> 30, handle_high |-> 100, handle_low |-> 90,
       left_peak |-> 100, cup_bottom |-> 95, right_peak |-> 100,
       avg_volume |-> <<10>>],
      [close |-> 102, volume |-> 30, handle_high |-> 100, handle_low |-> 90,
       left_peak |-> 100, cup_bottom |-> 80, right_peak |-> 90,
       avg_volume |-> <<10>>],
      [close |-> 102, volume |-> 12, handle_high |-> 100, handle_low |-> 90,
       left_peak |-> 100, cup_bottom |-> 80, right_peak |-> 100,
       avg_volume |-> <<10>>],
      [close |-> 101, volume |-> 30, handle_high |-> 100, handle_low |-> 90,
       left_peak |-> 100, cup_bottom |-> 80, right_peak |-> 100,
       avg_volume |-> <<10>>] }

RowsOf(strategy) ==
    CASE strategy = "trend_following" -> TrendRows
      [] strategy = "livermore_breakout" -> LivermoreRows
      [] strategy = "dan_zanger_cup_handle" -> CupHandleRows

\* frames of the three scanning strategies: every required column, rows
\* enough to pass the lookback, and up to MaxScan rows that the model
\* follows, in calendar order; the other rows yield no signal
ScanSeries(strategy) ==
    { [columns |-> AllColumns(strategy),
       length  |-> MinBars(strategy, DefaultParams(strategy)) + Len(rows),
       rows    |-> [i \in 1..Len(rows) |-> Dated(rows[i], i)]] :
          rows \in SeqsUpTo(RowsOf(strategy), MaxScan) }

\* frames a strategy returns from or fails on before it reads a row: no
\* rows, too few rows, columns missing
UnreadSeries(strategy) ==
    { [columns |-> cols, length |-> n, rows |-> <<>>] :
          cols \in IncompleteColumns(strategy),
          n \in {0, 3, MinBars(strategy, DefaultParams(strategy))} }
    \cup { [columns |-> AllColumns(strategy), length |-> 0, rows |-> <<>>] }
    \cup { [columns |-> AllColumns(strategy), length |-> n, rows |-> <<>>] :
              n \in {k \in {3} : k < MinBars(strategy, DefaultParams(strategy))} }

SeriesOf(strategy) ==
    UnreadSeries(strategy)
    \cup (IF strategy = "can_slim" THEN CanSlimSeries ELSE ScanSeries(strategy))

InitStrategy ==
    /\ EngineOff
    /\ SizerOff
    /\ AggOff
    /\ DrawdownOff
    /\ \E strategy \in StrategyNames :
          strat_call \in [strategy : {strategy}, symbol : {FallbackSymbol},
                          series : SeriesOf(strategy),
                          params : ParamChoices(strategy)]
    /\ strat_pc = "ready"
    /\ strat_result = <<>>

\* one call of generate_signals
GenerateStep ==
    /\ strat_pc = "ready"
    /\ strat_result' = GenerateSignals(strat_call.strategy, strat_call.symbol,
                                       strat_call.series, strat_call.params)
    /\ strat_pc' = "done"
    /\ UNCHANGED <<strat_call, engineVars, sizerVars, aggVars, ddVars>>

NextStrategy == GenerateStep

SpecStrategy == InitStrategy /\ [][NextStrategy]_vars

\* ------------------------------------------------------------------------
\* calculate_drawdowns on its own
\* ------------------------------------------------------------------------
\* the values of an equity curve: positive, as the equities of a run are
CurveValues == 1..4

\* the equity curves handed in: one value per date, at least one date
EquityCurves == SeqsUpTo(CurveValues, MaxCurve) \ {<<>>}

InitDrawdown ==
    /\ EngineOff
    /\ SizerOff
    /\ AggOff
    /\ StrategyOff
    /\ dd_call \in EquityCurves
    /\ dd_pc = "ready"
    /\ dd_result = <<>>

\* one call of calculate_drawdowns: the drawdown series and the maximum
CalculateDrawdowns ==
    /\ dd_pc = "ready"
    /\ dd_result' = [drawdowns    |-> Drawdowns(dd_call),
                     max_drawdown |-> MaxDrawdown(dd_call)]
    /\ dd_pc' = "done"
    /\ UNCHANGED <<dd_call, engineVars, sizerVars, aggVars, stratVars>>

NextDrawdown == CalculateDrawdowns

SpecDrawdown == InitDrawdown /\ [][NextDrawdown]_vars

\* ------------------------------------------------------------------------
\* Properties
\* ------------------------------------------------------------------------
\* the sum of f[i] over i in 1..n
RECURSIVE SumTo(_, _)
SumTo(f, n) == IF n = 0 THEN 0 ELSE f[n] + SumTo(f, n - 1)

Range(s) == {s[i] : i \in 1..Len(s)}

\* C1: a run that returns holds one equity value per date of the price
\* series, indexed by the series' dates in calendar order, whether or not
\* anything was filled
C1_EquityCurvePerDate ==
    pc = "done" =>
        LET curve == result.equity_curve
        IN  /\ Len(curve) = Len(price_data)
            /\ {curve[i].date : i \in 1..Len(curve)}
                   = {price_data[i].date : i \in 1..Len(price_data)}
            /\ \A i \in 1..(Len(curve) - 1) : curve[i].date < curve[i + 1].date

\* a finished run with fills over a series whose rows came latest first
C1_Witness ==
    /\ pc = "done"
    /\ result.trades # <<>>
    /\ price_data = FallingFrame

\* C2: per symbol the trade records alternate BUY, SELL, BUY, ... starting
\* with BUY: a BUY is filled only without an open position of the symbol, a
\* SELL only with one
C2_TradesAlternate ==
    \A sym \in Symbols :
        LET mine == SelectSeq(trades, LAMBDA tr : tr.symbol = sym)
        IN  \A i \in 1..Len(mine) :
                mine[i].action = IF i % 2 = 1 THEN "BUY" ELSE "SELL"

C5_NoSignalsFlat ==
    (pc = "done" /\ strategy_signals = <<>>) =>
        /\ \A i \in 1..Len(result.equity_curve) :
               result.equity_curve[i].value = initial_capital * TcDen
        /\ result.trades = <<>>
        /\ result.metrics.num_trades = 0
        /\ result.metrics.final = initial_capital * TcDen
        /\ result.metrics.total_return.num = 0

\* a finished run over several dates without signals and allocations
C5_Witness ==
    /\ pc = "done"
    /\ strategy_signals = <<>>
    /\ allocations = <<>>
    /\ Len(result.equity_curve) >= 2

\* C6: the worked scenario fills a BUY of 490 shares at 102, leaving cash
\* 50020, then a SELL at 110; final is 103920, there are 2 trades and no
\* drawdown
C6_WorkedScenario ==
    (price_data = ScenarioFrame) =>
        /\ Len(trades) = 1 =>
               /\ trades[1].action = "BUY"
               /\ trades[1].shares = 490
               /\ trades[1].price = 102
               /\ cash = 50020 * TcDen
        /\ pc = "done" =>
               /\ [i \in 1..Len(result.trades) |-> result.trades[i].action]
                      = <<"BUY", "SELL">>
               /\ result.trades[1].shares = 490
               /\ result.trades[2].price = 110
               /\ result.metrics.final = 103920 * TcDen
               /\ result.metrics.num_trades = 2
               /\ result.metrics.max_drawdown.num = 0

\* the worked scenario, run to its end
C6_Witness ==
    /\ price_data = ScenarioFrame
    /\ pc = "done"
    /\ Len(result.trades) = 2

\* the allocations size_positions returned in one sector, summed
SectorTotal(allocs, sector) ==
    SumTo([i \in 1..Len(allocs) |->
              IF allocs[i].sector = sector THEN allocs[i].allocation ELSE 0],
          Len(allocs))

\* the limit the claim names: the sector's entry, else "other"'s, else 1.0
ClaimedLimit(limits, sector) ==
    IF sector \in DOMAIN limits THEN limits[sector]
    ELSE IF "other" \in DOMAIN limits THEN limits["other"]
    ELSE PctDen

\* C3: per sector, the allocations returned sum to at most account_equity
\* times the sector's limit
C3_SectorCap ==
    sizer_pc = "done" =>
        \A a \in Range(sizer_result) :
            SectorTotal(sizer_result, a.sector) * PctDen
                <= sizer_call.account_equity
                   * ClaimedLimit(sizer_call.risk.sector_limits, a.sector)

\* two allocations in one sector that together fill its limit
C3_Witness ==
    /\ sizer_pc = "done"
    /\ \E i, j \in 1..Len(sizer_result) :
          /\ i < j
          /\ sizer_result[i].sector = sizer_result[j].sector
          /\ SectorTotal(sizer_result, sizer_result[i].sector) * PctDen
                 = sizer_call.account_equity
                   * ClaimedLimit(sizer_call.risk.sector_limits, sizer_result[i].sector)

\* the signals of the group of symbol and signal_type, by claim
GroupIndexes(signals, symbol, signal_type) ==
    {i \in 1..Len(signals) :
        signals[i].symbol = symbol /\ signals[i].signal_type = signal_type}

\* the weight the claim names: the weighting map's entry, else 1.0
ClaimedWeight(weighting, strategy) ==
    IF strategy \in DOMAIN weighting THEN weighting[strategy] ELSE PctDen

\* sum of weight_i over the group, and of weight_i * confidence_i
GroupWeight(signals, params, symbol, signal_type) ==
    SumTo([i \in 1..Len(signals) |->
              IF i \in GroupIndexes(signals, symbol, signal_type)
              THEN ClaimedWeight(params.weighting, signals[i].strategy) ELSE 0],
          Len(signals))

GroupWeightedSum(signals, params, symbol, signal_type) ==
    SumTo([i \in 1..Len(signals) |->
              IF i \in GroupIndexes(signals, symbol, signal_type)
              THEN ClaimedWeight(params.weighting, signals[i].strategy)
                   * signals[i].confidence
              ELSE 0],
          Len(signals))

\* the aggregated signals emitted for a group
Emitted(symbol, signal_type) ==
    {i \in 1..Len(agg_result) :
        agg_result[i].symbol = symbol /\ agg_result[i].signal_type = signal_type}

\* C7: a group whose weighted confidence is below min_confidence emits no
\* aggregated signal, and one at or above it emits exactly one
C7_ThresholdDecides ==
    agg_pc = "done" =>
        \A s \in Range(agg_call.signals) :
            LET w  == GroupWeight(agg_call.signals, agg_call.params, s.symbol, s.signal_type)
                wc == GroupWeightedSum(agg_call.signals, agg_call.params,
                                       s.symbol, s.signal_type)
            IN  w > 0 =>
                    Cardinality(Emitted(s.symbol, s.signal_type))
                        = IF wc < agg_call.params.min_confidence * w THEN 0 ELSE 1

\* one group dropped below the threshold, another emitted exactly at it
C7_Witness ==
    /\ agg_pc = "done"
    /\ \E s, u \in Range(agg_call.signals) :
          /\ GroupWeightedSum(agg_call.signals, agg_call.params, s.symbol, s.signal_type)
                 < agg_call.params.min_confidence
                   * GroupWeight(agg_call.signals, agg_call.params, s.symbol, s.signal_type)
          /\ Emitted(s.symbol, s.signal_type) = {}
          /\ GroupWeight(agg_call.signals, agg_call.params, u.symbol, u.signal_type) > 0
          /\ GroupWeightedSum(agg_call.signals, agg_call.params, u.symbol, u.signal_type)
                 = agg_call.params.min_confidence
                   * GroupWeight(agg_call.signals, agg_call.params, u.symbol, u.signal_type)
          /\ Cardinality(Emitted(u.symbol, u.signal_type)) = 1

\* confidences 0.8 and 0.7 of two strategies on one symbol and date
ExampleSignals ==
    << Signal("A", 1, "trend_following", "BUY", 80, AggMeta("trend_following")),
       Signal("A", 1, "can_slim", "BUY", 70, AggMeta("can_slim")) >>

\* C8: the confidence of an aggregated signal is the weighted mean of its
\* group's confidences, a strategy missing from the weighting map weighing
\* 1.0; 0.8 and 0.7 under the default weights give one signal of 0.75 whose
\* metadata lists the two strategies in input order
C8_WeightedMean ==
    agg_pc = "done" =>
        /\ \A e \in Range(agg_result) :
               /\ e.confidence.den # 0
               /\ e.confidence.num
                      * GroupWeight(agg_call.signals, agg_call.params, e.symbol, e.signal_type)
                  = GroupWeightedSum(agg_call.signals, agg_call.params,
                                     e.symbol, e.signal_type)
                    * e.confidence.den
        /\ (agg_call.signals = ExampleSignals /\ agg_call.params.weighting = <<>>
            /\ agg_call.params.min_confidence <= 75) =>
               /\ Len(agg_result) = 1
               /\ agg_result[1].confidence.num = 75 * agg_result[1].confidence.den
               /\ agg_result[1].metadata["strategies"]
                      = <<"trend_following", "can_slim">>

\* the example, aggregated under the default parameters; and a group under
\* unequal weights
C8_Witness ==
    /\ agg_pc = "done"
    /\ agg_call.signals = ExampleSignals
    /\ agg_call.params = [min_confidence |-> DefaultMinConfidence, weighting |-> <<>>]
    /\ Len(agg_result) = 1

\* C9: size_positions returns at most max_positions allocations
C9_AtMostMaxPositions ==
    sizer_pc = "done" => Len(sizer_result) <= sizer_call.risk.max_positions

\* max_positions allocations out of more BUY signals with a positive price
C9_Witness ==
    /\ sizer_pc = "done"
    /\ Len(sizer_result) = sizer_call.risk.max_positions
    /\ Cardinality({i \in 1..Len(sizer_call.signals) :
                       /\ sizer_call.signals[i].signal_type = "BUY"
                       /\ \E k \in DOMAIN sizer_call.signals[i].metadata :
                              sizer_call.signals[i].metadata[k] > 0})
           > sizer_call.risk.max_positions

\* C10: every allocation is that of a BUY signal of the input, the
\* allocations are in order of non-increasing confidence, and those of equal
\* confidence in the order of their signals in the input
C10_BuyOnlyByConfidence ==
    sizer_pc = "done" =>
        /\ \A i \in 1..Len(sizer_result) :
               LET a == sizer_result[i]
               IN  /\ a.src \in 1..Len(sizer_call.signals)
                   /\ sizer_call.signals[a.src].signal_type = "BUY"
                   /\ sizer_call.signals[a.src].symbol = a.symbol
                   /\ sizer_call.signals[a.src].confidence = a.confidence
        /\ \A i, j \in 1..Len(sizer_result) :
               i < j =>
                   /\ sizer_result[i].confidence >= sizer_result[j].confidence
                   /\ sizer_result[i].confidence = sizer_result[j].confidence
                          => sizer_result[i].src < sizer_result[j].src

\* two allocations, the one of higher confidence moved ahead of a signal
\* that came before it in the input, and a SELL signal of still higher
\* confidence without an allocation
C10_Witness ==
    /\ sizer_pc = "done"
    /\ \E i, j \in 1..Len(sizer_result) :
          /\ i < j
          /\ sizer_result[i].src > sizer_result[j].src
          /\ sizer_result[i].confidence > sizer_result[j].confidence
    /\ \E s \in Range(sizer_call.signals) :
          /\ s.signal_type = "SELL"
          /\ \A a \in Range(sizer_result) : s.confidence > a.confidence

\* C11: size_positions returns no allocation when account_equity is zero or
\* negative, whatever the signals, the sector map and the risk configuration
C11_NoEquityNoAllocations ==
    (sizer_pc = "done" /\ sizer_call.account_equity <= 0) => sizer_result = <<>>

\* a call with a deficit for equity and a BUY signal with a positive price
C11_Witness ==
    /\ sizer_pc = "done"
    /\ sizer_call.account_equity < 0
    /\ sizer_result = <<>>
    /\ \E s \in Range(sizer_call.signals) :
          /\ s.signal_type = "BUY"
          /\ Has(s.metadata, "entry_price")
          /\ s.metadata["entry_price"] > 0

\* s without its i-th element
RemoveAt(s, i) == SubSeq(s, 1, i - 1) \o SubSeq(s, i + 1, Len(s))

\* the allocations as the caller sees them
Returned(allocs) ==
    [k \in 1..Len(allocs) |->
        [f \in DOMAIN allocs[k] \ {"src"} |-> allocs[k][f]]]

\* the price the claim names: the first of entry_price, breakout_price,
\* price, close the metadata holds, as <<price>>
ClaimedPrice(metadata) ==
    IF "entry_price" \in DOMAIN metadata THEN <<metadata["entry_price"]>>
    ELSE IF "breakout_price" \in DOMAIN metadata THEN <<metadata["breakout_price"]>>
    ELSE IF "price" \in DOMAIN metadata THEN <<metadata["price"]>>
    ELSE IF "close" \in DOMAIN metadata THEN <<metadata["close"]>>
    ELSE <<>>

\* the input signals that got an allocation
Allocated(allocs) == {allocs[k].src : k \in 1..Len(allocs)}

\* C12: a BUY signal without a price, or with a price that is not positive,
\* gets no allocation; every allocation holds at least one share; and a BUY
\* signal that got no allocation took neither a slot nor sector capacity:
\* the call returns what it returns without that signal, so the signals
\* after it are sized as if it had not been there
C12_SkippedTakesNothing ==
    (sizer_pc = "done" /\ sizer_call.account_equity > 0) =>
        /\ \A i \in 1..Len(sizer_call.signals) :
               LET p == ClaimedPrice(sizer_call.signals[i].metadata)
               IN  (p = <<>> \/ p[1] <= 0) => i \notin Allocated(sizer_result)
        /\ \A a \in Range(sizer_result) : a.shares >= 1 /\ a.allocation >= 1
        /\ \A i \in 1..Len(sizer_call.signals) :
               (sizer_call.signals[i].signal_type = "BUY"
                /\ i \notin Allocated(sizer_result)) =>
                   Returned(SizePositions(RemoveAt(sizer_call.signals, i),
                                          sizer_call.account_equity,
                                          sizer_call.sector_map, sizer_call.risk))
                       = Returned(sizer_result)

\* every slot taken, one of them by a signal that came after a skipped one
\* in the order of sizing: a BUY signal with a positive price that its
\* sector had no room for
C12_Witness ==
    /\ sizer_pc = "done"
    /\ Len(sizer_result) = sizer_call.risk.max_positions
    /\ \E i \in 1..Len(sizer_call.signals), a \in Range(sizer_result) :
          LET s == sizer_call.signals[i]
              p == ClaimedPrice(s.metadata)
          IN  /\ s.signal_type = "BUY"
              /\ i \notin Allocated(sizer_result)
              /\ s.confidence > a.confidence
              /\ p # <<>>
              /\ p[1] > 0

\* C13: a negative transaction_cost never gets past construction; an empty
\* series or an initial_capital that is not positive never gets past the
\* head of run(): no result is returned, no signal is generated and the
\* position sizer is not called
C13_InvalidInputsRejected ==
    /\ transaction_cost < 0 =>
           /\ pc \in {"new", "rejected"}
           /\ result = NoResult
           /\ calls = <<>>
    /\ (price_data = <<>> \/ initial_capital <= 0) =>
           /\ pc \in {"new", "rejected", "idle", "failed"}
           /\ result = NoResult
           /\ calls = <<>>
           /\ allocations = <<>>
           /\ trades = <<>>
           /\ equity_values = <<>>

\* run() has failed on a capital of zero, with rows and a signal at hand
C13_Witness ==
    /\ pc = "failed"
    /\ initial_capital = 0
    /\ price_data # <<>>
    /\ strategy_signals # <<>>
    /\ calls = <<>>

\* the fields the claim calls absent: the required ones the series lacks
AbsentFields(strategy, series) ==
    {RequiredColumns(strategy)[i] : i \in 1..Len(RequiredColumns(strategy))}
        \ series.columns

\* C14: whenever the series lacks a required field, generate_signals fails
\* with an error that names the absent fields and returns no signals, for
\* each strategy and also for a series shorter than the minimum lookback
C14_MissingFieldsRaise ==
    (strat_pc = "done"
     /\ AbsentFields(strat_call.strategy, strat_call.series) # {}) =>
        /\ strat_result.outcome = "raised"
        /\ Range(strat_result.missing)
               = AbsentFields(strat_call.strategy, strat_call.series)
        /\ strat_result.signals = <<>>

\* C15: every signal a strategy emits has a confidence within [0, 1]
C15_ConfidenceInUnitRange ==
    strat_pc = "done" =>
        \A sig \in Range(strat_result.signals) :
            /\ sig.confidence.den > 0
            /\ 0 <= sig.confidence.num
            /\ sig.confidence.num <= sig.confidence.den

\* the latest bar of a series: the row of the greatest date
LatestBar(series) ==
    CHOOSE row \in Range(series.rows) :
        \A other \in Range(series.rows) : other.date <= row.date

\* C16: on a series with rows and every required field CAN SLIM emits one
\* BUY signal, dated at the latest bar and with the summed component scores
\* of that bar for confidence, if and only if that sum is at least
\* min_score, and nothing otherwise; for the bar close 98, earnings_growth
\* 0.30, relative_strength 0.9, fifty_two_week_high 100, volume_change 0.25
\* under quarter weights the component scores are 0.25, 0.225, 13/60 and
\* 0.25, 113/120 in all
C16_CanSlimScore ==
    (strat_pc = "done" /\ strat_call.strategy = "can_slim"
     /\ strat_call.series.length >= 1
     /\ AbsentFields("can_slim", strat_call.series) = {}) =>
        LET latest == LatestBar(strat_call.series)
            params == strat_call.params
            score  == TotalScore(CalculateComponents(latest, params))
            den    == ScoreDen(latest, params)
            sigs   == strat_result.signals
        IN  /\ strat_result.outcome = "returned"
            /\ IF score * PctDen >= params.min_score * den
               THEN /\ Len(sigs) = 1
                    /\ sigs[1].signal_type = "BUY"
                    /\ sigs[1].symbol = strat_call.symbol
                    /\ sigs[1].date = latest.date
                    /\ sigs[1].confidence = [num |-> score, den |-> den]
               ELSE sigs = <<>>
            /\ ([f \in DOMAIN TestBar |-> latest[f]] = TestBar
                /\ params = CanSlimDefaults) =>
                   /\ Len(sigs) = 1
                   /\ sigs[1].metadata["earnings_score"] * 4 = den
                   /\ sigs[1].metadata["relative_strength_score"] * 40 = 9 * den
                   /\ sigs[1].metadata["price_near_high_score"] * 60 = 13 * den
                   /\ sigs[1].metadata["volume_increase_score"] * 4 = den
                   /\ sigs[1].confidence.num * 120 = 113 * sigs[1].confidence.den

\* the bar of the example as the latest row of a frame whose rows came
\* latest first, and the one signal it gives
C16_Witness ==
    /\ strat_pc = "done"
    /\ strat_call.strategy = "can_slim"
    /\ strat_call.params = CanSlimDefaults
    /\ Len(strat_call.series.rows) >= 2
    /\ strat_call.series.rows[1] = Dated(TestBar, Len(strat_call.series.rows))
    /\ Len(strat_result.signals) = 1
    /\ strat_result.signals[1].date = Len(strat_call.series.rows)

\* the earliest of the series dates that is not before date, as <<d>>;
\* <<>> when date is after all of them
EarliestOnOrAfter(date, dates) ==
    LET later == {d \in dates : d >= date}
    IN  IF later = {} THEN <<>>
        ELSE <<CHOOSE d \in later : \A e \in later : d <= e>>

SeriesDates == {price_data[i].date : i \in 1..Len(price_data)}

\* C17: the trade records are in non-decreasing date order, a date's BUY
\* records before its SELL records; while the entries of a date are being
\* filled no trade of that date exists, while its SELL signals are being
\* processed no SELL of that date exists, and its equity is recorded after
\* both, one date after the other in calendar order; a symbol that is
\* bought on a date to which one of its SELL signals is aligned is sold on
\* that date
C17_BuyThenSellThenEquity ==
    /\ \A i, j \in 1..Len(trades) :
           i < j =>
               /\ trades[i].date <= trades[j].date
               /\ trades[i].date = trades[j].date
                      => ~(trades[i].action = "SELL" /\ trades[j].action = "BUY")
    /\ pc \in {"buy", "sell", "equity"} =>
           /\ Len(equity_values) = di - 1
           /\ \A i \in 1..(Len(frame) - 1) : frame[i].date < frame[i + 1].date
           /\ \A tr \in Range(trades) : tr.date <= frame[di].date
           /\ pc = "buy" => \A tr \in Range(trades) : tr.date < frame[di].date
           /\ pc = "sell" =>
                  \A tr \in Range(trades) :
                      tr.action = "SELL" => tr.date < frame[di].date
    /\ pc \in {"equity", "metrics", "done"} =>
           \A i \in 1..Len(trades) :
               (/\ trades[i].action = "BUY"
                /\ \E sig \in Range(strategy_signals) :
                       /\ sig.signal_type = "SELL"
                       /\ sig.symbol = trades[i].symbol
                       /\ EarliestOnOrAfter(sig.date, SeriesDates)
                              = <<trades[i].date>>) =>
                   \E j \in (i + 1)..Len(trades) :
                       /\ trades[j].action = "SELL"
                       /\ trades[j].symbol = trades[i].symbol
                       /\ trades[j].date = trades[i].date

\* a finished run over several dates in which a symbol was bought and sold
\* on one date
C17_Witness ==
    /\ pc = "done"
    /\ Len(frame) >= 2
    /\ \E i, j \in 1..Len(trades) :
          /\ i < j
          /\ trades[i].action = "BUY"
          /\ trades[j].action = "SELL"
          /\ trades[i].symbol = trades[j].symbol
          /\ trades[i].date = trades[j].date

\* C18: the price of a SELL fill is the value of the first key the signal's
\* metadata holds among entry_price, breakout_price, price, close, in that
\* order, and the close of the fill date when it holds none of them
C18_SellPricePrecedence ==
    \A tr \in Range(trades) :
        tr.action = "SELL" =>
            \E sig \in Range(strategy_signals) :
                /\ sig.signal_type = "SELL"
                /\ sig.symbol = tr.symbol
                /\ EarliestOnOrAfter(sig.date, SeriesDates) = <<tr.date>>
                /\ tr.price = IF ClaimedPrice(sig.metadata) # <<>>
                              THEN ClaimedPrice(sig.metadata)[1]
                              ELSE GetClose(frame, tr.date, tr.symbol)

\* the trades of an action and symbol filled on a date, and the signals of
\* that type and symbol whose earliest series date on or after their own is
\* that date
TradesOn(action, sym, date) ==
    {i \in 1..Len(trades) :
        trades[i].action = action /\ trades[i].symbol = sym /\ trades[i].date = date}

SignalsDue(signal_type, sym, date) ==
    {i \in 1..Len(strategy_signals) :
        /\ strategy_signals[i].signal_type = signal_type
        /\ strategy_signals[i].symbol = sym
        /\ EarliestOnOrAfter(strategy_signals[i].date, SeriesDates) = <<date>>}

\* C19: a fill happens on a series date, and on each date a symbol has no
\* more BUY fills, and no more SELL fills, than it has signals of that type
\* whose earliest series date on or after their nominal date is that date,
\* so that a signal dated after the last series date is never executed;
\* and once the SELL signals of a date are processed, no position is left
\* in a symbol that has a SELL signal due on that date
C19_ExecutedOnAlignedDate ==
    /\ \A tr \in Range(trades) : tr.date \in SeriesDates
    /\ \A sym \in Symbols, d \in SeriesDates, action \in {"BUY", "SELL"} :
           Cardinality(TradesOn(action, sym, d))
               <= Cardinality(SignalsDue(action, sym, d))
    /\ pc = "equity" =>
           \A sym \in DOMAIN positions :
               SignalsDue("SELL", sym, frame[di].date) = {}

\* a finished run: a BUY signal dated between two series dates was filled
\* on the later one, a SELL signal of the same symbol dated after the last
\* series date was not executed
C19_Witness ==
    /\ pc = "done"
    /\ \E b, x \in Range(strategy_signals) :
          /\ b.signal_type = "BUY"
          /\ b.date \notin SeriesDates
          /\ \E d \in SeriesDates :
                 /\ EarliestOnOrAfter(b.date, SeriesDates) = <<d>>
                 /\ TradesOn("BUY", b.symbol, d) # {}
          /\ x.signal_type = "SELL"
          /\ x.symbol = b.symbol
          /\ EarliestOnOrAfter(x.date, SeriesDates) = <<>>
          /\ \A tr \in Range(trades) : tr.action = "BUY"

\* the BUY fills the statement of C20 gives for the entries of one date,
\* from entry i on and from the cash held before it: fills are the
\* <<symbol, shares, price>> of the entries not dropped, covered records
\* that the cash was never negative after a fill
RECURSIVE ClaimedBuys(_, _, _, _)
ClaimedBuys(todo, i, st, tc) ==
    IF i > Len(todo) THEN st
    ELSE
      LET entry  == todo[i]
          shares == Min(entry.shares,
                        st.cash \div (entry.price * (TcDen + tc)))
          debit  == shares * entry.price * (TcDen + tc)
      IN  IF shares = 0 THEN ClaimedBuys(todo, i + 1, st, tc)
          ELSE ClaimedBuys(todo, i + 1,
                           [cash    |-> st.cash - debit,
                            fills   |-> Append(st.fills,
                                               <<entry.symbol, shares, entry.price>>),
                            covered |-> st.covered /\ st.cash - debit >= 0],
                           tc)

\* C20: the entry loop of a date leaves the cash and the trade records
\* that follow from filling each entry, in order, with min(requested
\* shares, floor(cash / (price * (1 + transaction_cost)))) shares at the
\* cash held just before it, dropping an entry whose capped count is 0
\* without a record or a change of cash, and debiting shares * price *
\* (1 + transaction_cost) for a fill; the cash is >= 0 after every fill
C20_BuyFillsWithinCash ==
    [][pc = "buy" =>
          LET buys == ClaimedBuys(EntriesOn(pending_entries, frame[di].date), 1,
                                  [cash |-> cash, fills |-> <<>>, covered |-> TRUE],
                                  transaction_cost)
              added == SubSeq(trades', Len(trades) + 1, Len(trades'))
          IN  /\ cash' = buys.cash
              /\ cash' >= 0
              /\ buys.covered
              /\ SubSeq(trades', 1, Len(trades)) = trades
              /\ Len(added) = Len(buys.fills)
              /\ \A k \in 1..Len(added) :
                     /\ added[k].action = "BUY"
                     /\ added[k].date = frame[di].date
                     /\ <<added[k].symbol, added[k].shares, added[k].price>>
                            = buys.fills[k]]_vars

\* a finished run with a transaction cost in which a BUY was filled with
\* fewer shares than its entry asked for and a later entry was dropped
C20_Witness ==
    /\ pc = "done"
    /\ transaction_cost > 0
    /\ cash >= 0
    /\ \E i \in 1..Len(pending_entries) :
          /\ \E tr \in Range(trades) :
                 /\ tr.action = "BUY"
                 /\ tr.symbol = pending_entries[i].symbol
                 /\ tr.date = pending_entries[i].date
                 /\ tr.shares < pending_entries[i].shares
          /\ \E j \in (i + 1)..Len(pending_entries) :
                 /\ pending_entries[j].date = pending_entries[i].date
                 /\ TradesOn("BUY", pending_entries[j].symbol,
                             pending_entries[j].date) = {}

\* the index of the last BUY record of a symbol before record k, 0 if none
LastBuyBefore(sym, k) ==
    LET before == {i \in 1..(k - 1) :
                      trades[i].action = "BUY" /\ trades[i].symbol = sym}
    IN  IF before = {} THEN 0
        ELSE CHOOSE i \in before : \A j \in before : j <= i

\* the sum of value - fees over the records of a sequence
RECURSIVE NetProceeds(_)
NetProceeds(records) ==
    IF records = <<>> THEN 0
    ELSE Head(records).value - Head(records).fees + NetProceeds(Tail(records))

\* C21: every SELL record sells the shares of the BUY fill that opened the
\* position, with value = shares * price, fees = value * transaction_cost
\* and pnl = value - fees - shares * entry price - entry fees of that fill,
\* and no other SELL of the symbol lies between the two
C21_SellRecords ==
    \A k \in 1..Len(trades) :
        trades[k].action = "SELL" =>
            LET b == LastBuyBefore(trades[k].symbol, k)
            IN  /\ b > 0
                /\ \A j \in (b + 1)..(k - 1) : trades[j].symbol # trades[k].symbol
                /\ trades[k].shares = trades[b].shares
                /\ trades[k].value = trades[k].shares * trades[k].price * TcDen
                /\ trades[k].fees = trades[k].shares * trades[k].price
                                       * transaction_cost
                /\ trades[k].pnl = trades[k].value - trades[k].fees
                                      - trades[b].shares * trades[b].price * TcDen
                                      - trades[b].fees

\* C21: the SELL step of a date appends only SELL records, each of all the
\* shares of a position open before the step, credits the cash with their
\* value - fees, and removes exactly the positions it sold
C21_SellStep ==
    [][pc = "sell" =>
          LET added == SubSeq(trades', Len(trades) + 1, Len(trades'))
              sold  == {added[k].symbol : k \in 1..Len(added)}
          IN  /\ SubSeq(trades', 1, Len(trades)) = trades
              /\ cash' = cash + NetProceeds(added)
              /\ Cardinality(sold) = Len(added)
              /\ sold \subseteq DOMAIN positions
              /\ DOMAIN positions' = DOMAIN positions \ sold
              /\ \A sym \in DOMAIN positions' : positions'[sym] = positions[sym]
              /\ \A k \in 1..Len(added) :
                     /\ added[k].action = "SELL"
                     /\ added[k].shares = positions[added[k].symbol].shares]_vars

\* C21: the record conditions and the step conditions together
C21_SellClosesPosition == []C21_SellRecords /\ C21_SellStep

\* a finished run with a transaction cost whose last record is a SELL of a
\* position bought at a different price, so fees and pnl are not 0
C21_Witness ==
    /\ pc = "done"
    /\ transaction_cost > 0
    /\ Len(trades) >= 2
    /\ trades[Len(trades)].action = "SELL"
    /\ trades[Len(trades)].fees > 0
    /\ trades[Len(trades)].pnl # 0
    /\ LastBuyBefore(trades[Len(trades)].symbol, Len(trades)) > 0
    /\ trades[LastBuyBefore(trades[Len(trades)].symbol, Len(trades))].fees > 0
    /\ DOMAIN positions = {}

\* the close of a symbol on the last series date
LastClose(sym) ==
    LET last == CHOOSE row \in Range(price_data) :
                    \A other \in Range(price_data) : other.date <= row.date
    IN  last.close[sym]

\* the value at the last closes of the positions of the symbols in syms
RECURSIVE OpenValue(_)
OpenValue(syms) ==
    IF syms = {} THEN 0
    ELSE LET sym == CHOOSE s \in syms : TRUE
         IN  positions[sym].shares * LastClose(sym) * TcDen
             + OpenValue(syms \ {sym})

\* C22: when the run has ended, the returned trade log is the log as it
\* stood after the last date, the last record of a symbol whose position
\* is still open is a BUY (nothing closed it), and metrics.final is the
\* cash plus shares * close on the last date of every open position
C22_OpenAtEndMarkedToClose ==
    pc = "done" =>
        /\ result.trades = trades
        /\ \A sym \in DOMAIN positions :
               LET recs == {k \in 1..Len(trades) : trades[k].symbol = sym}
               IN  /\ recs # {}
                   /\ \A k \in recs :
                          (\A j \in recs : j <= k) => trades[k].action = "BUY"
        /\ result.metrics.final = cash + OpenValue(DOMAIN positions)

\* a finished run that leaves a position open whose last close differs
\* from its entry price and from the first close, in a run that has a SELL
\* signal of the symbol
C22_Witness ==
    /\ pc = "done"
    /\ \E sym \in DOMAIN positions :
          /\ LastClose(sym) # positions[sym].entry_price
          /\ LastClose(sym) # price_data[1].close[sym]
          /\ result.metrics.final > cash
          /\ \E sig \in Range(strategy_signals) :
                 sig.symbol = sym /\ sig.signal_type = "SELL"

\* the BUY signals of a symbol and the allocations of a symbol (an
\* allocation without a symbol counts for the fallback symbol), as indexes
BuySignalsOf(sym) ==
    {i \in 1..Len(strategy_signals) :
        strategy_signals[i].signal_type = "BUY" /\ strategy_signals[i].symbol = sym}

AllocationsOf(sym) ==
    {i \in 1..Len(allocations) :
        IF "symbol" \in DOMAIN allocations[i]
        THEN allocations[i]["symbol"] = sym
        ELSE sym = FallbackSymbol}

\* the date of the k-th earliest-dated BUY signal of a symbol
KthEarliest(sym, k) ==
    CHOOSE d \in {strategy_signals[i].date : i \in BuySignalsOf(sym)} :
        /\ Cardinality({i \in BuySignalsOf(sym) : strategy_signals[i].date < d}) < k
        /\ Cardinality({i \in BuySignalsOf(sym) : strategy_signals[i].date <= d}) >= k

\* for k = 1, 2, ... up to the smaller of the numbers of allocations and of
\* BUY signals of the symbol: the aligned date of the k-th earliest signal
ClaimedSchedule(sym) ==
    [k \in 1..Min(Cardinality(AllocationsOf(sym)), Cardinality(BuySignalsOf(sym))) |->
        EarliestOnOrAfter(KthEarliest(sym, k), SeriesDates)]

\* a is b with some elements left out
RECURSIVE IsSubseq(_, _)
IsSubseq(a, b) ==
    IF a = <<>> THEN TRUE
    ELSE IF b = <<>> THEN FALSE
    ELSE IF Head(a) = Head(b) THEN IsSubseq(Tail(a), Tail(b))
    ELSE IsSubseq(a, Tail(b))

\* the dates of the entries scheduled for a symbol, in allocation order
EntryDates(sym) ==
    LET mine == SelectSeq(pending_entries, LAMBDA e : e.symbol = sym)
    IN  [k \in 1..Len(mine) |-> <<mine[k].date>>]

\* C23: the entries scheduled for a symbol are, in allocation order, on the
\* aligned dates of its BUY signals taken in date order, one signal per
\* allocation and none for an allocation beyond the last signal (an
\* allocation may be left out); so the BUY fills of a symbol are no more
\* than its BUY signals and no more than its allocations
C23_AllocationsMatchSignals ==
    \A sym \in Symbols :
        /\ IsSubseq(EntryDates(sym), ClaimedSchedule(sym))
        /\ Cardinality({k \in 1..Len(trades) :
                            trades[k].action = "BUY" /\ trades[k].symbol = sym})
               <= Len(ClaimedSchedule(sym))

\* a run with two BUY signals of a symbol given latest first and more
\* allocations for the symbol than signals: both signals got an entry, on
\* different dates, the earlier date first, and the symbol was bought
C23_Witness ==
    /\ pc = "done"
    /\ \E sym \in Symbols :
          /\ Cardinality(BuySignalsOf(sym)) = 2
          /\ Cardinality(AllocationsOf(sym)) > 2
          /\ \E i, j \in BuySignalsOf(sym) :
                 i < j /\ strategy_signals[i].date > strategy_signals[j].date
          /\ Len(EntryDates(sym)) = 2
          /\ EntryDates(sym)[1][1] < EntryDates(sym)[2][1]
          /\ Cardinality({k \in 1..Len(trades) :
                              trades[k].action = "BUY" /\ trades[k].symbol = sym}) >= 1

\* the pairs of positions i <= j of a curve
DatePairs(curve) == {p \in (1..Len(curve)) \X (1..Len(curve)) : p[1] <= p[2]}

\* C24: max_drawdown is the largest (equity[i] - equity[j]) / equity[i]
\* over the pairs i <= j of the curve: some pair has that ratio and no pair
\* has a larger one; and it is 0 exactly when no value is below an earlier
\* one
C24_MaxDrawdownOverPairs ==
    dd_pc = "done" =>
        LET curve == dd_call
            dd    == dd_result.max_drawdown
        IN  /\ dd.den > 0
            /\ \E p \in DatePairs(curve) :
                   (curve[p[1]] - curve[p[2]]) * dd.den = dd.num * curve[p[1]]
            /\ \A p \in DatePairs(curve) :
                   (curve[p[1]] - curve[p[2]]) * dd.den <= dd.num * curve[p[1]]
            /\ dd.num = 0 <=>
                   \A p \in DatePairs(curve) : curve[p[1]] <= curve[p[2]]

\* a curve that rises above its first value, falls below it, partly
\* recovers: the maximum is from the peak, not from the first value
C24_Witness ==
    /\ dd_pc = "done"
    /\ Len(dd_call) = 4
    /\ dd_call[2] > dd_call[1]
    /\ dd_call[3] < dd_call[1]
    /\ dd_call[4] > dd_call[3]
    /\ dd_result.max_drawdown.num * dd_call[2]
           = (dd_call[2] - dd_call[3]) * dd_result.max_drawdown.den
    /\ dd_result.drawdowns[3].num < 0

\* C25: in every signal CAN SLIM emits for a latest bar with a defined
\* volume_change, the volume_increase_score is
\* weight * min(1, volume_change / volume_increase_threshold)
C25_VolumeScoreScaled ==
    (strat_pc = "done" /\ strat_call.strategy = "can_slim"
     /\ strat_result.outcome = "returned"
     /\ strat_result.signals # <<>>) =>
        LET latest == LatestBar(strat_call.series)
            params == strat_call.params
        IN  NotNa(latest.volume_change) =>
                strat_result.signals[1].metadata["volume_increase_score"]
                    * params.volume_increase_threshold
                = params.weights.volume_increase
                  * Min(params.volume_increase_threshold, latest.volume_change[1])
                  * PctDen * ScoreUnit(latest, params)

\* the signals of the group of an aggregated signal, in input order
GroupOf(e) ==
    SelectSeq(agg_call.signals,
              LAMBDA s : s.symbol = e.symbol /\ s.signal_type = e.signal_type)

\* the values of a metadata key in a group, one per signal carrying it, in
\* input order
ClaimedValues(group, key) ==
    LET carrying == SelectSeq(group, LAMBDA s : key \in DOMAIN s.metadata)
    IN  [i \in 1..Len(carrying) |-> carrying[i].metadata[key]]

\* the aggregated signal is dated at the latest date of its group
DatedAtLatest(e) ==
    /\ \E s \in Range(GroupOf(e)) : s.date = e.date
    /\ \A s \in Range(GroupOf(e)) : s.date <= e.date

\* strategies and confidence_values are parallel to the group
ParallelLists(e) ==
    /\ e.metadata["strategies"]
           = [i \in 1..Len(GroupOf(e)) |-> GroupOf(e)[i].strategy]
    /\ e.metadata["confidence_values"]
           = [i \in 1..Len(GroupOf(e)) |-> GroupOf(e)[i].confidence]

SellDue(date) == {sym \in Symbols : SignalsDue("SELL", sym, date) # {}}

\* C27, the step: the SELL step of a date adds no record for a symbol
\* without an open position and leaves the positions of the symbols
\* without a SELL signal due as they are; when no symbol with a SELL
\* signal due has an open position, cash, positions and trade log stay as
\* they are
C27_SellStep ==
    [][pc = "sell" =>
          LET added == SubSeq(trades', Len(trades) + 1, Len(trades'))
              date  == frame[di].date
          IN  /\ \A k \in 1..Len(added) :
                     /\ added[k].symbol \in DOMAIN positions
                     /\ added[k].symbol \in SellDue(date)
              /\ \A sym \in DOMAIN positions \ SellDue(date) :
                     sym \in DOMAIN positions' /\ positions'[sym] = positions[sym]
              /\ SellDue(date) \cap DOMAIN positions = {} =>
                     cash' = cash /\ positions' = positions /\ trades' = trades]_vars

\* C27, later dates: a SELL record of a symbol is dated on a date a SELL
\* signal of the symbol is due
C27_NoLateSell ==
    \A tr \in Range(trades) :
        tr.action = "SELL" => tr.symbol \in SellDue(tr.date)

\* C27: a SELL signal of a symbol without an open position on its aligned
\* date changes nothing on that date and is not applied on a later one
C27_SellWithoutPositionIgnored == []C27_NoLateSell /\ C27_SellStep

\* a finished run: a SELL signal of a symbol was due on a date before the
\* symbol was first bought, the position bought later is still open and
\* nothing was sold
C27_Witness ==
    /\ pc = "done"
    /\ \E sym \in DOMAIN positions :
          \E d \in SeriesDates :
              /\ sym \in SellDue(d)
              /\ \A tr \in Range(trades) : tr.action = "BUY" /\ tr.date > d
              /\ \E tr \in Range(trades) : tr.symbol = sym

\* the shares of the records of an action and symbol in the trade log
RECURSIVE SharesOf(_, _, _)
SharesOf(records, action, sym) ==
    IF records = <<>> THEN 0
    ELSE (IF Head(records).action = action /\ Head(records).symbol = sym
          THEN Head(records).shares ELSE 0)
         + SharesOf(Tail(records), action, sym)

\* C28: for every symbol the shares of its BUY records minus the shares of
\* its SELL records are the shares of its open position, 0 when it has none
C28_SharesConserved ==
    \A sym \in Symbols :
        SharesOf(trades, "BUY", sym) - SharesOf(trades, "SELL", sym)
            = IF sym \in DOMAIN positions THEN positions[sym].shares ELSE 0

\* the sum of the allocation values of the first n allocations returned
RECURSIVE AllocatedTo(_)
AllocatedTo(n) ==
    IF n = 0 THEN 0 ELSE sizer_result[n].allocation + AllocatedTo(n - 1)

FirstSeen(e) ==
    CHOOSE i \in GroupIndexes(agg_call.signals, e.symbol, e.signal_type) :
        \A j \in GroupIndexes(agg_call.signals, e.symbol, e.signal_type) : i <= j

\* at most one aggregated signal per (symbol, signal_type) pair
OnePerPair ==
    \A s \in Range(agg_call.signals) :
        Cardinality(Emitted(s.symbol, s.signal_type)) <= 1

\* the aggregated signals follow the first appearances of their pairs
InPairOrder ==
    \A i, j \in 1..Len(agg_result) :
        i < j => FirstSeen(agg_result[i]) < FirstSeen(agg_result[j])

\* an emitted confidence is between the smallest and the largest
\* confidence of its group
WithinGroupRange ==
    \A e \in Range(agg_result) :
        /\ \E s \in Range(GroupOf(e)) :
               s.confidence * e.confidence.den <= e.confidence.num
        /\ \E s \in Range(GroupOf(e)) :
               s.confidence * e.confidence.den >= e.confidence.num

\* C30: aggregate emits at most one signal per (symbol, signal_type) pair,
\* in the order in which the pairs first appear in the input, and under
\* non-negative weights each emitted confidence is between the smallest
\* and the largest confidence of its group
C30_OnePerPairInOrder ==
    agg_pc = "done" =>
        /\ OnePerPair
        /\ InPairOrder
        /\ (\A k \in DOMAIN agg_call.params.weighting :
                agg_call.params.weighting[k] >= 0) => WithinGroupRange

=============================================================================
